---- MODULE Spec2Model ----
(***************************************************************************)
(* Model of the streaming page renderer of mdlew/ip:                       *)
(*   src/src/utils.ts       fetchProducts (bounded fetch)                  *)
(*   src/src/ssr.ts         renderPage, renderWeather, renderForecast,     *)
(*                          renderHead, renderGeolocation, renderFooter    *)
(*   src/unnamed/part_003   the worker's fetch handler (nonce, stream)     *)
(*                                                                         *)
(* One isolate runs an event loop.  A step of the model is one run of      *)
(* synchronous code between two suspension points (await), or one event    *)
(* of the network or of a timer.                                           *)
(***************************************************************************)
EXTENDS Integers, Sequences, FiniteSets, TLC

\* ------------------------------------------------------------------ bounds
\* Number of page requests the isolate serves in one behaviour of ConcSpec.
MaxReqs == 2

Reqs == 1..MaxReqs

\* ------------------------------------------------------------- JS values
Undefined == "undefined"
Null == "null"
NoVal == "-"

\* ------------------------------------------------------------ program constants
\* ssr.ts: defaults of the module-level user object and of renderPage
DefaultTimezone == "America/New_York"
DefaultLatitude == "40.712778"
DefaultLongitude == "-74.006111"

\* ------------------------------------------------------------ strings
\* Country codes are sequences of characters so that toUpperCase() and
\* includes() are computed, not assumed.
UpperOf(ch) ==
  CASE ch = "u" -> "U"
    [] ch = "s" -> "S"
    [] ch = "c" -> "C"
    [] ch = "a" -> "A"
    [] ch = "t" -> "T"
    [] ch = "l" -> "L"
    [] ch = "v" -> "V"
    [] ch = "k" -> "K"
    [] ch = "o" -> "O"
    [] OTHER -> ch

toUpperCase(s) == [i \in 1..Len(s) |-> UpperOf(s[i])]

includes(s, sub) ==
  \E i \in 0..(Len(s) - Len(sub)) :
    \A j \in 1..Len(sub) : s[i + j] = sub[j]

\* request.cf of the inbound request.  A field the platform did not supply
\* is Undefined; country carries its own flag because it is a sequence.
cfLosAngeles ==
  [hasCountry |-> TRUE, country |-> <<"U", "S">>,
   latitude |-> "34.05", longitude |-> "-118.24", timezone |-> "America/Los_Angeles"]
cfLowerCase ==
  [hasCountry |-> TRUE, country |-> <<"u", "s">>,
   latitude |-> "41.88", longitude |-> "-87.63", timezone |-> "America/Chicago"]
cfToronto ==
  [hasCountry |-> TRUE, country |-> <<"C", "A">>,
   latitude |-> "43.65", longitude |-> "-79.38", timezone |-> "America/Toronto"]
cfAbsent ==
  [hasCountry |-> FALSE, country |-> <<>>,
   latitude |-> Undefined, longitude |-> Undefined, timezone |-> Undefined]

CfChoices == {cfLosAngeles, cfLowerCase, cfToronto, cfAbsent}

\* Faulty variant of countryIsUS: any country code opens the US-only gate.
countryIsUS_anyCountry(cf) == cf.hasCountry

\* ssr.ts 256-257 / 262-263:
\*   typeof request.cf?.country === "string" &&
\*   request.cf?.country.toUpperCase().includes("US")
countryIsUS(cf) ==
  cf.hasCountry /\ includes(toUpperCase(cf.country), <<"U", "S">>)

\* ------------------------------------------------------------ provider calls
Round1Calls == {"waqi", "nwsPoints", "airnowSensor"}
Round2Calls == {"nwsAlert", "nwsForecast", "nwsObservations", "airnowForecast"}
CallIds == Round1Calls \cup Round2Calls

\* Shapes of a parsed 2xx body, as far as the renderer probes them.
\*   full          every field the renderer reads is present
\*   noData        WAQI: no data field
\*   noIaqi        WAQI: data without iaqi
\*   noProperties  NWS points / forecast: no properties key
\*   noCounty      NWS points: properties without county and forecastZone
\*   noPeriods     NWS forecast: properties without periods
\*   empty         features: [] (alerts, observations) or [] (AirNow)
Shapes(c) ==
  CASE c = "waqi" -> {"full", "noData", "noIaqi"}
    [] c = "nwsPoints" -> {"full", "noProperties", "noCounty"}
    [] c = "airnowSensor" -> {"full", "empty"}
    [] c = "nwsAlert" -> {"full", "empty"}
    [] c = "nwsForecast" -> {"full", "noProperties", "noPeriods"}
    [] c = "nwsObservations" -> {"full", "empty"}
    [] c = "airnowForecast" -> {"full", "empty"}

\* One invocation of fetchProducts.
\*   st        none | headers (awaiting fetch) | body (awaiting json) | settled
\*   timer     unset | armed | cleared | fired: the call's own setTimeout
\*   res       the value the promise resolved with: Null or a shape
\*   bodyRead  response.json() was called
\*   lat       the coordinates in the request URL (NoVal: none)
\*   enabled   the fetchEnabled argument
\* and what the upstream did, recorded by the network and timer events:
\*   upstream  non2xx | ok | transport | timeout | parseError | parsed
\*   json      the shape of the body that was parsed
\*   overdue   the call is in flight and fetchTimeout ms have passed
\* IdleCall is a call never made, or one whose promise has been consumed.
IdleCall ==
  [st |-> "none", timer |-> "unset", res |-> NoVal, bodyRead |-> FALSE,
   lat |-> NoVal, enabled |-> FALSE, upstream |-> NoVal, json |-> NoVal,
   overdue |-> FALSE]

\* One chunk handed to writer.write():
\*   kind    which render function produced it
\*   nonce   the nonce attribute of its inline script/style tags (0: none)
\*   lat     the coordinates it embeds (NoVal: none)
\*   tz      the timezone of the date formatter or localized date it used
\*   parts   the sub-sections it contains
\*   status  footer only: <<call, timeout glyph, status glyph>> per provider call
\*   airnow  forecast only: the AirNow forecast entries it shows, in order
\*   periods forecast only: the NWS forecast periods it shows, in order
\*   overall current conditions only: the AirNow overall AQI it shows, if any
Fragment(kind, nonce, lat, tz, parts, status) ==
  [kind |-> kind, nonce |-> nonce, lat |-> lat, tz |-> tz, parts |-> parts,
   status |-> status, airnow |-> <<>>, periods |-> <<>>, overall |-> <<>>]

\* The tuples renderWeather and renderForecast return, before they return.
NoReturn ==
  [nwsPointsData |-> Undefined, airnowSensorData |-> Undefined,
   waqiRequestSuccess |-> FALSE, nwsPointsRequestSuccess |-> FALSE,
   airnowSensorRequestSuccess |-> FALSE, waqiDataExists |-> FALSE,
   nwsPointsDataExists |-> FALSE, airnowSensorDataExists |-> FALSE,
   nwsAlertRequestSuccess |-> FALSE, nwsForecastRequestSuccess |-> FALSE,
   nwsObservationsRequestSuccess |-> FALSE, airnowForecastRequestSuccess |-> FALSE,
   nwsAlertDataExists |-> FALSE, nwsForecastDataExists |-> FALSE,
   nwsObservationsDataExists |-> FALSE, airnowForecastDataExists |-> FALSE]

NoCf == cfAbsent

\* ------------------------------------------------------------ credentials
\* ssr.ts 45-49: the three secrets of Env, and the calls that send each:
\* WAQI_TOKEN in the WAQI URL (224), NWS_AGENT as User-Agent of the NWS
\* calls (235, 557), AIRNOW_KEY in the AirNow URLs (239, 560).
AllSecrets == {"WAQI_TOKEN", "NWS_AGENT", "AIRNOW_KEY"}

CredentialOf(c) ==
  CASE c = "waqi" -> "WAQI_TOKEN"
    [] c \in {"airnowSensor", "airnowForecast"} -> "AIRNOW_KEY"
    [] OTHER -> "NWS_AGENT"

\* What a provider answers with a 2xx to a call that carries "undefined"
\* for its credential: an error body without the payload.  WAQI's is
\* {status: "error", data: "Invalid key"}: data is there, iaqi is not.
RefusalShapes(c) ==
  CASE c = "waqi" -> {"noData", "noIaqi"}
    [] c \in {"nwsPoints", "nwsForecast"} -> {"noProperties"}
    [] OTHER -> {"empty"}

\* The bodies the upstream of call c can send, given the credentials.
Answerable(c, shape, sec) ==
  CredentialOf(c) \in sec \/ shape \in RefusalShapes(c)

\* ------------------------------------------------------------ parsed bodies
\* A JavaScript number that may be NaN (or a field that may be absent):
\* <<>> is NaN / undefined, <<n>> the number n.
NaN == <<>>
Num(n) == <<n>>
IsNaN(x) == Len(x) = 0

\* The iaqi readings of a WAQI body: t in ninths of a degree Celsius, h in
\* percent, w in m/s, each possibly absent.
Reading(t, h, w) == [t |-> t, h |-> h, w |-> w]

\* The Celsius value that is tempF degrees Fahrenheit, in ninths.
CelsiusNinths(tempF) == 5 * (tempF - 32)

\* ------------------------------------------------------------ dates
\* A calendar date, and Date.prototype.setDate(getDate() + 1) on it
\* (ssr.ts 529-530), which rolls over the month and the year.
DaysIn(y, m) ==
  CASE m \in {4, 6, 9, 11} -> 30
    [] m = 2 -> IF y % 4 = 0 /\ (y % 100 # 0 \/ y % 400 = 0) THEN 29 ELSE 28
    [] OTHER -> 31

tomorrowOf(date) ==
  LET y == date[1]
      m == date[2]
      d == date[3]
  IN IF d < DaysIn(y, m) THEN <<y, m, d + 1>>
     ELSE IF m < 12 THEN <<y, m + 1, 1>>
     ELSE <<y + 1, 1, 1>>

\* ssr.ts 531-538: YYYY-MM-DD, month and day in two digits.
dateString(date) ==
  <<date[1], date[2] \div 10, date[2] % 10, date[3] \div 10, date[3] % 10>>

\* ssr.ts 957-959: the wall-clock date in a timezone.  The requests of one
\* run arrive around 2026-11-01 05:30 UTC, when it is still 31 October on
\* the Pacific coast; "system" is the Date of module load (ssr.ts 64).
localDate(tz) ==
  IF tz = "America/Los_Angeles" THEN <<2026, 10, 31>> ELSE <<2026, 11, 1>>

\* ssr.ts 529-539
airnowDateStr(u) ==
  <<dateString(localDate(u.localizedDate)),
    dateString(tomorrowOf(localDate(u.localizedDate)))>>
dayStr == <<"Today", "Tomorrow">>

NoBody ==
  [reading |-> Reading(NaN, NaN, NaN), feed |-> <<>>, periods |-> <<>>,
   sensors |-> <<>>]
\* An AirNow observation: its AQI (-1 when AirNow has none) and Category.Name.
Sensor(AQI, category) == [AQI |-> AQI, Category |-> category]
DefaultSensors == <<Sensor(40, "Good")>>
\* The names of the periods of an NWS forecast.
DefaultPeriods == <<"Tonight", "Tuesday">>
\* DateForecast of the entries of an AirNow forecast: 31 October, 1 November.
DefaultFeed == <<dateString(<<2026, 10, 31>>), dateString(<<2026, 11, 1>>)>>

\* 70 F, 50 %, 5 m/s: neither heat index nor wind chill applies.
MildBody ==
  [reading |-> Reading(Num(CelsiusNinths(70)), Num(50), Num(5)),
   feed |-> DefaultFeed, periods |-> DefaultPeriods,
   sensors |-> DefaultSensors]
\* 95 F, 60 %, calm.
HotBody ==
  [reading |-> Reading(Num(CelsiusNinths(95)), Num(60), Num(0)),
   feed |-> DefaultFeed, periods |-> DefaultPeriods,
   sensors |-> DefaultSensors]
\* A body whose iaqi has no t, h or w entry.
BareBody == [reading |-> Reading(NaN, NaN, NaN), feed |-> DefaultFeed, periods |-> DefaultPeriods,
   sensors |-> DefaultSensors]

SpecBodies == {MildBody, HotBody, BareBody}

\* AirNow forecasts of up to MaxFeedLen entries, dated 30 October to
\* 2 November in any order.
MaxFeedLen == 3
FeedDates ==
  {dateString(<<2026, 10, 30>>), dateString(<<2026, 10, 31>>),
   dateString(<<2026, 11, 1>>), dateString(<<2026, 11, 2>>)}
Feeds == UNION {[1..n -> FeedDates] : n \in 1..MaxFeedLen}
FeedBodies == {[NoBody EXCEPT !.feed = f] : f \in Feeds}

\* NWS forecasts of up to MaxPeriods periods.
MaxPeriods == 6
PeriodNames == {"Tonight", "Tuesday"}
PeriodBodies ==
  {[NoBody EXCEPT !.periods = ps] :
     ps \in UNION {[1..n -> PeriodNames] : n \in 0..MaxPeriods}}

\* AirNow observation arrays of up to MaxSensors entries.
MaxSensors == 3
SensorChoices ==
  {Sensor(a, c) : a \in {0 - 1, 40, 120}, c \in {"Good", "Unhealthy"}}
SensorBodies ==
  {[NoBody EXCEPT !.sensors = ss] :
     ss \in UNION {[1..n -> SensorChoices] : n \in 1..MaxSensors}}

\* The grid of readings the derived metrics are checked on.
MaxTempIndex == 25
MaxHumIndex == 10
MaxWindIndex == 6
TempGrid == {Num(CelsiusNinths(5 * i - 10)) : i \in 0..MaxTempIndex} \cup {NaN}
HumGrid == {Num(10 * i) : i \in 0..MaxHumIndex} \cup {NaN}
WindGrid == {Num(5 * i) : i \in 0..MaxWindIndex} \cup {NaN}
GridBodies ==
  {[reading |-> Reading(t, h, w), feed |-> DefaultFeed, periods |-> DefaultPeriods,
   sensors |-> DefaultSensors] :
     t \in TempGrid, h \in HumGrid, w \in WindGrid}

VARIABLES
  user,       \* ssr.ts 62-79: the module-level user object
  req,        \* per request: position of renderPage, request.cf, nonce, airnowDateStr
  calls,      \* per request and call: the fetchProducts invocation
  netCalls,   \* per request and call: how many times fetch() went out
  sink,       \* per request: fragments written to the writer, in order
  closed,     \* per request: how many times writer.close() was called
  ret,        \* per request: what renderWeather / renderForecast returned
  nonceCount, \* nonces drawn so far by the fetch handler
  seen,       \* per request and call: how the call ended, kept after the join
  log,        \* per request: writes, fetches, the Response, close, in program order
  body,       \* per request: what the parsed WAQI and AirNow forecast bodies hold
  secrets,    \* the credentials the Worker's env holds
  http,       \* per request: the inbound request and what the fetch handler answered
  aqi         \* the AQI values aqiToEmoji was given and the glyphs it returned

vars ==
  <<user, req, calls, netCalls, sink, closed, ret, nonceCount, seen, log, body,
    secrets, http, aqi>>

\* ------------------------------------------------------------ utils.ts: fetchProducts
\* Lines 51-67: the synchronous part.  A disabled call returns null at once
\* and never reaches fetch(); an enabled one arms its own timer and waits
\* for the response headers.  fetchTimeout (3000 ms) is the timer's delay;
\* time itself is abstract: the timer either has fired or has not.
fetchProducts(lat, fetchEnabled) ==
  IF ~fetchEnabled
    THEN [IdleCall EXCEPT !.st = "settled", !.res = Null]
    ELSE [IdleCall EXCEPT !.st = "headers", !.timer = "armed", !.lat = lat,
                          !.enabled = TRUE]

\* Faulty variant of fetchIssued: a second fetch() for every enabled call.
fetchIssued_retry(fetchEnabled) == IF fetchEnabled THEN 2 ELSE 0

\* fetch() goes out exactly when the call is enabled (line 64).
fetchIssued(fetchEnabled) == IF fetchEnabled THEN 1 ELSE 0

\* Faulty variant of onResponse: response.ok is not looked at, the body of
\* a non-2xx response is read like any other.
onResponse_ignoresStatus(call, ok) ==
  [call EXCEPT !.st = "body", !.timer = "cleared", !.bodyRead = TRUE]

\* Lines 69-82: the response headers arrived.  clearTimeout, then either
\* return null (non-2xx, body untouched) or go on to await response.json().
onResponse(call, ok) ==
  IF ~ok
    THEN [call EXCEPT !.st = "settled", !.timer = "cleared", !.res = Null]
    ELSE [call EXCEPT !.st = "body", !.timer = "cleared", !.bodyRead = TRUE]

\* Lines 83-90: fetch() rejected for a transport failure; the catch block
\* returns null.  The timer is not cleared on this path.
onFetchRejected(call) ==
  [call EXCEPT !.st = "settled", !.res = Null]

\* Lines 56-59 and 83-90: the timer fired, controller.abort() rejects the
\* pending fetch(), the catch block returns null.
onTimeout(call) ==
  [call EXCEPT !.st = "settled", !.timer = "fired", !.res = Null]

\* Faulty variant of onJson: a body that arrives after the deadline is
\* dropped, so the result depends on how long the upstream took.
onJson_lateIsNull(call, shape) ==
  [call EXCEPT !.st = "settled",
               !.res = IF call.overdue THEN Null ELSE shape,
               !.overdue = FALSE]

\* Lines 80-81: response.json() resolved with a value of the given shape.
onJson(call, shape) ==
  [call EXCEPT !.st = "settled", !.res = shape, !.overdue = FALSE]

\* Lines 80 and 83-90: response.json() rejected; the catch block returns null.
onJsonRejected(call) ==
  [call EXCEPT !.st = "settled", !.res = Null, !.overdue = FALSE]

Settled(call) == call.st = "settled"
InFlight(call) == call.st \in {"headers", "body"}

\* ------------------------------------------------------------ utils.ts: aqiToEmoji
\* An AQI as JavaScript holds it: a number, undefined or null.
AqiNumber(n) == [kind |-> "number", n |-> n]
AqiUndefined == [kind |-> "undefined", n |-> 0]
AqiNull == [kind |-> "null", n |-> 0]

\* Faulty variant of aqiToEmoji: the upper bounds are exclusive.
aqiToEmoji_exclusive(AQI) ==
  IF AQI.kind \in {"undefined", "null"} THEN ""
  ELSE IF AQI.n < 50 THEN "green"
  ELSE IF AQI.n < 100 THEN "yellow"
  ELSE IF AQI.n < 150 THEN "orange"
  ELSE IF AQI.n < 200 THEN "red"
  ELSE IF AQI.n < 300 THEN "purple"
  ELSE "black"

\* utils.ts 297-313.  `AQI == undefined` holds for undefined and for null.
aqiToEmoji(AQI) ==
  IF AQI.kind \in {"undefined", "null"} THEN ""
  ELSE IF AQI.n <= 50 THEN "green"
  ELSE IF AQI.n <= 100 THEN "yellow"
  ELSE IF AQI.n <= 150 THEN "orange"
  ELSE IF AQI.n <= 200 THEN "red"
  ELSE IF AQI.n <= 300 THEN "purple"
  ELSE "black"

\* The values aqiToEmoji is tried on: -1 (AirNow's "not available") up to
\* MaxAqi, undefined and null.
MaxAqi == 310
AqiInputs == {AqiNumber(n) : n \in (0 - 1)..MaxAqi} \cup {AqiUndefined, AqiNull}

\* ------------------------------------------------------------ ssr.ts: fragments
\* Lines 99-159.  Reads user.localizedDate (hour of day) and user.nonce.
renderHead(u) == Fragment("head", u.nonce, NoVal, u.localizedDate, {}, {})

\* Lines 168-203.  Reads user.latitude/longitude/timezone and user.nonce.
renderGeolocation(u) ==
  Fragment("geolocation", u.nonce, u.latitude, u.timezone, {"map"}, {})

\* utils.ts 282-295
statusEmoji(fetchSuccess) == IF fetchSuccess THEN "check" ELSE "cross"
timeoutStatusEmoji(fetchSuccess) == IF fetchSuccess THEN "" ELSE "hourglass"

\* Lines 852-932.  Reads user.dateFormat and user.nonce; the status line
\* pairs timeoutStatusEmoji(request success) with statusEmoji(data exists).
renderFooter(u, t) ==
  Fragment("footer", u.nonce, NoVal, u.dateFormat, {"browser"},
    { <<"nwsPoints", timeoutStatusEmoji(t.nwsPointsRequestSuccess),
        statusEmoji(t.nwsPointsDataExists)>>,
      <<"nwsAlert", timeoutStatusEmoji(t.nwsAlertRequestSuccess),
        statusEmoji(t.nwsAlertDataExists)>>,
      <<"nwsForecast", timeoutStatusEmoji(t.nwsForecastRequestSuccess),
        statusEmoji(t.nwsForecastDataExists)>>,
      <<"nwsObservations", timeoutStatusEmoji(t.nwsObservationsRequestSuccess),
        statusEmoji(t.nwsObservationsDataExists)>>,
      <<"airnowForecast", timeoutStatusEmoji(t.airnowForecastRequestSuccess),
        statusEmoji(t.airnowForecastDataExists)>>,
      <<"airnowSensor", timeoutStatusEmoji(t.airnowSensorRequestSuccess),
        statusEmoji(t.airnowSensorDataExists)>>,
      <<"waqi", timeoutStatusEmoji(t.waqiRequestSuccess),
        statusEmoji(t.waqiDataExists)>> })

\* ------------------------------------------------------------ ssr.ts: renderWeather
\* Promise.allSettled over fetchProducts promises: fetchProducts never
\* rejects, so every entry is {status: "fulfilled", value}; v is the value.

\* Lines 269-272
waqiRequestSuccess(v) == v # Null
\* Faulty variant of nwsPointsRequestSuccess: only the promise's status is
\* looked at, as for the calls of round 2.
nwsPointsRequestSuccess_fulfilled(v) == TRUE
\* Lines 273-279
nwsPointsRequestSuccess(v) == v # Null /\ v # "noProperties"
\* Faulty variant of airnowSensorRequestSuccess: only the promise's status
\* is looked at.
airnowSensorRequestSuccess_fulfilled(v) == TRUE
\* Lines 280-284
airnowSensorRequestSuccess(v) == v # Null /\ v # "empty"

\* Lines 286-290: value.data
waqiDataOf(v) ==
  IF waqiRequestSuccess(v) /\ v # "noData" THEN v ELSE Undefined
\* Lines 291-296: value.properties
nwsPointsDataOf(v) == IF nwsPointsRequestSuccess(v) THEN v ELSE Undefined
\* Faulty variant of airnowSensorDataOf: any value that is not null is
\* kept as the data.
airnowSensorDataOf_anyValue(v) == IF v # Null THEN v ELSE Undefined
\* Lines 297-301
airnowSensorDataOf(v) == IF airnowSensorRequestSuccess(v) THEN v ELSE Undefined

\* Line 343: waqiData.iaqi.t?.v raises a TypeError when data has no iaqi.
renderWeatherThrows(vs) == waqiDataOf(vs["waqi"]) = "noIaqi"

\* Lines 343-349: the readings taken from the WAQI data, NaN without it.
\* parseFloat(undefined) is NaN as well.
tempCOf(waqiData, rd) == IF waqiData # Undefined THEN rd.t ELSE NaN
humidityOf(waqiData, rd) == IF waqiData # Undefined THEN rd.h ELSE NaN
windOf(waqiData, rd) == IF waqiData # Undefined THEN rd.w ELSE NaN

\* Line 344: (tempC * 9.0) / 5.0 + 32.0, tempC in ninths of a degree; the
\* temperatures drawn are whole Fahrenheit degrees.
tempFOf(tempC) == IF IsNaN(tempC) THEN NaN ELSE Num(tempC[1] \div 5 + 32)

\* The largest s with s * s <= n.
isqrt(n) == CHOOSE s \in 0..10000 : s * s <= n /\ n < (s + 1) * (s + 1)

\* utils.ts 234-235: the simple formula, in ten-thousandths of a degree.
simpleHeatIndex(T, H) == 5000 * T + 305000 + 6000 * (T - 68) + 470 * H

\* utils.ts 236: (tempF + heatIndex) / 2 > 80
usesRegression(T, H) == 10000 * T + simpleHeatIndex(T, H) > 1600000

\* utils.ts 237-246: the Rothfusz regression, in ten-thousandths; every
\* coefficient is the source's, split so that no product exceeds 2^31,
\* each term truncated below the last digit kept.
regressionHeatIndex(T, H) ==
  -423790
  + 20490 * T + (1523 * T) \div 10000
  + 101433 * H + (3127 * H) \div 10000
  - (2247 * T * H + (5541 * T * H) \div 10000)
  - (68 * T * T + (3783 * T * T) \div 10000)
  - (548 * H * H + (1717 * H * H) \div 10000)
  + (((122874 * T * T) \div 100) * H) \div 100
  + (((85282 * H * H) \div 100) * T) \div 100
  - (((199 * T * T * H) \div 100) * H) \div 100

\* utils.ts 247-250: the low-humidity correction.
lowHumidityCorrection(T, H) ==
  IF H < 13 /\ T > 80 /\ T < 112
    THEN LET d == IF T >= 95 THEN T - 95 ELSE 95 - T
         IN ((13 - H) * isqrt(((17 - d) * 100000000) \div 17)) \div 4
    ELSE 0

\* utils.ts 251-253: the high-humidity correction.
highHumidityCorrection(T, H) ==
  IF H > 85 /\ T > 80 /\ T < 87 THEN 200 * (H - 85) * (87 - T) ELSE 0

\* utils.ts 232-256, in ten-thousandths of a degree Fahrenheit; NaN in,
\* NaN out (every comparison with NaN is false, every sum is NaN).
calcHeatIndex(tempF, humidity) ==
  IF IsNaN(tempF) \/ IsNaN(humidity) THEN NaN
  ELSE LET T == tempF[1]
           H == humidity[1]
       IN IF usesRegression(T, H)
            THEN Num(regressionHeatIndex(T, H) - lowHumidityCorrection(T, H)
                       + highHumidityCorrection(T, H))
            ELSE Num(simpleHeatIndex(T, H))

\* Math.pow(windSpeed, 0.16) in thousandths, where windSpeed is
\* w * 1000 * user.miPerKm / 3600 (lines 346-348, miPerKm 0.621371 at
\* line 77), for the wind readings w = 0, 5, ..., 40 m/s.
windPow(w) ==
  CASE w = 0 -> 0
    [] w = 5 -> 977
    [] w = 10 -> 1091
    [] w = 15 -> 1164
    [] w = 20 -> 1219
    [] w = 25 -> 1264
    [] w = 30 -> 1301
    [] w = 35 -> 1333
    [] w = 40 -> 1362

\* Faulty variant of windChillOf: the two wind terms are left out.
windChillOf_noWind(tempF, wind) ==
  IF IsNaN(tempF) \/ IsNaN(wind) THEN NaN
  ELSE Num(357400 + 6215 * tempF[1])

\* Lines 353-357: the wind chill, in ten-thousandths of a degree.
windChillOf(tempF, wind) ==
  IF IsNaN(tempF) \/ IsNaN(wind) THEN NaN
  ELSE LET T == tempF[1]
           pw == windPow(wind[1])
       IN Num(357400 + 6215 * T + ((4275 * T - 357500) * pw) \div 1000)

\* utils.ts 258-266: the dew point is a number exactly when temperature
\* and humidity are; its value is not modelled (0 stands for it).
calcDewPointF(tempC, humidity) ==
  IF IsNaN(tempC) \/ IsNaN(humidity) THEN NaN ELSE Num(0)

\* Faulty variant of derivedParts: the two "feels like" lines are written
\* whenever their value is a number, whatever it is.
derivedParts_noThreshold(waqiData, rd) ==
  LET tempC == tempCOf(waqiData, rd)
      humidity == humidityOf(waqiData, rd)
  IN (IF ~IsNaN(calcHeatIndex(tempFOf(tempC), humidity))
        THEN {"heatIndex"} ELSE {})
     \cup (IF ~IsNaN(windChillOf(tempFOf(tempC), windOf(waqiData, rd)))
             THEN {"windChill"} ELSE {})
     \cup (IF IsNaN(calcDewPointF(tempC, humidity))
             THEN {"dewPointNaN"} ELSE {"dewPoint"})

\* Lines 368-384: what the fragment says about the derived metrics.  The
\* heat index goes in when it is above 80 (line 368), the wind chill when
\* it is below 40 (line 374); the dew point is always formatted (382),
\* and floatFormat.format(NaN) is the text "NaN".
derivedParts(waqiData, rd) ==
  LET tempC == tempCOf(waqiData, rd)
      tempF == tempFOf(tempC)
      humidity == humidityOf(waqiData, rd)
      heatIndex == calcHeatIndex(tempF, humidity)
      windChill == windChillOf(tempF, windOf(waqiData, rd))
      dewPointF == calcDewPointF(tempC, humidity)
  IN (IF ~IsNaN(heatIndex) /\ heatIndex[1] > 800000
        THEN {"heatIndex"} ELSE {})
     \cup (IF ~IsNaN(windChill) /\ windChill[1] < 400000
             THEN {"windChill"} ELSE {})
     \cup (IF IsNaN(dewPointF) THEN {"dewPointNaN"} ELSE {"dewPoint"})

\* Lines 321-327: the loop keeps the first entry and then any entry whose
\* AQI is greater than the one kept.  i is the entry looked at, overall
\* is <<>> while airnowOverall.AQI is undefined.
RECURSIVE airnowOverallScan(_, _, _)
airnowOverallScan(data, i, overall) ==
  IF i > Len(data) THEN overall
  ELSE LET kept == IF overall = <<>> THEN 0 - 1 ELSE overall[1].AQI
           takes == i = 1 \/ data[i].AQI > kept
       IN airnowOverallScan(data, i + 1,
            IF takes THEN <<data[i]>> ELSE overall)

\* Faulty variant of airnowOverall: the last entry with the greatest AQI.
airnowOverall_lastMax(data) ==
  LET top == CHOOSE i \in 1..Len(data) :
               /\ \A j \in 1..Len(data) : data[j].AQI <= data[i].AQI
               /\ \A j \in (i + 1)..Len(data) : data[j].AQI < data[i].AQI
  IN <<data[top]>>

\* Lines 317-340
airnowOverall(data) == airnowOverallScan(data, 1, <<>>)

\* Lines 391-395: the AirNow overall AQI with its glyph and category.
overallShown(airnowSensorData, sensors) ==
  IF airnowSensorData = Undefined THEN <<>>
  ELSE LET o == airnowOverall(sensors)
       IN IF o = <<>> THEN <<>>
          ELSE <<[AQI |-> o[1].AQI, glyph |-> aqiToEmoji(AqiNumber(o[1].AQI)),
                  category |-> o[1].Category]>>

\* Lines 361-482: the sub-sections of the current-conditions fragment.
\* The reading lines are built unconditionally; the radar loop, the WAQI
\* source line and the AirNow values depend on the corresponding data.
weatherParts(vs) ==
  {"readings"}
    \cup (IF waqiDataOf(vs["waqi"]) # Undefined THEN {"waqi"} ELSE {})
    \cup (IF nwsPointsDataOf(vs["nwsPoints"]) # Undefined THEN {"radar"} ELSE {})
    \cup (IF airnowSensorDataOf(vs["airnowSensor"]) # Undefined
            THEN {"airnow"} ELSE {})

\* Lines 402-407 read user.longitude/latitude for the AirNow map links,
\* line 468 reads user.dateFormat for the WAQI time: both after the await.
weatherContent(u, vs, rd, sensors) ==
  [Fragment("weather", 0,
     IF airnowSensorDataOf(vs["airnowSensor"]) # Undefined
       THEN u.latitude ELSE NoVal,
     IF waqiDataOf(vs["waqi"]) # Undefined THEN u.dateFormat ELSE NoVal,
     weatherParts(vs) \cup derivedParts(waqiDataOf(vs["waqi"]), rd), {})
   EXCEPT !.overall = overallShown(airnowSensorDataOf(vs["airnowSensor"]), sensors)]

\* Lines 485-495: the tuple renderWeather returns.
weatherTuple(vs) ==
  [NoReturn EXCEPT
     !.nwsPointsData = nwsPointsDataOf(vs["nwsPoints"]),
     !.airnowSensorData = airnowSensorDataOf(vs["airnowSensor"]),
     !.waqiRequestSuccess = waqiRequestSuccess(vs["waqi"]),
     !.nwsPointsRequestSuccess = nwsPointsRequestSuccess(vs["nwsPoints"]),
     !.airnowSensorRequestSuccess = airnowSensorRequestSuccess(vs["airnowSensor"]),
     !.waqiDataExists = (waqiDataOf(vs["waqi"]) # Undefined),
     !.nwsPointsDataExists = (nwsPointsDataOf(vs["nwsPoints"]) # Undefined),
     !.airnowSensorDataExists =
        (airnowSensorDataOf(vs["airnowSensor"]) # Undefined)]

\* ------------------------------------------------------------ ssr.ts: renderForecast
\* Lines 541-550: nwsPointsData.county.split("/") raises a TypeError when
\* properties has no county (and forecastZone likewise).
renderForecastPrefixThrows(nwsPointsData) == nwsPointsData = "noCounty"

\* Faulty variant of round2Enabled: the AirNow forecast has no gate.
round2Enabled_airnowUngated(c, t) ==
  IF c = "airnowForecast" THEN TRUE ELSE t.nwsPointsData # Undefined

\* Lines 572-595: the four round-2 calls, with their gates.  The AirNow
\* forecast URL (line 560) embeds user.latitude/longitude as they are now.
round2Enabled(c, t) ==
  IF c = "airnowForecast"
    THEN t.airnowSensorData # Undefined
    ELSE t.nwsPointsData # Undefined

round2Calls(u, t) ==
  [c \in CallIds |->
     IF c \in Round2Calls
       THEN fetchProducts(IF c = "airnowForecast" THEN u.latitude ELSE NoVal,
                          round2Enabled(c, t))
       ELSE IdleCall]

\* Faulty variant of round2RequestSuccess: the value is looked at, as for
\* WAQI in round 1.
round2RequestSuccess_valueNotNull(v) == v # Null
\* Lines 599-600, 609-610, 618-620, 629-631: entry defined and fulfilled.
round2RequestSuccess(v) == TRUE
nwsAlertSuccess_anyList(v) == v # Null
\* Lines 601-608
nwsAlertSuccess(v) == v # Null /\ v = "full"
\* Lines 611-617
nwsForecastSuccess(v) == v # Null /\ v # "noProperties"
\* Lines 621-628
nwsObservationsSuccess(v) == v # Null /\ v = "full"
\* Lines 632-636
airnowForecastSuccess(v) == v # Null /\ v = "full"

\* Line 744: nwsForecastData.periods.length raises a TypeError when the
\* forecast properties have no periods.
renderForecastThrows(nwsPointsData, vs) ==
  /\ nwsPointsData # Undefined
  /\ nwsForecastSuccess(vs["nwsForecast"])
  /\ vs["nwsForecast"] = "noPeriods"

\* Lines 666-815: the sub-sections of the forecast fragment.
forecastParts(nwsPointsData, vs) ==
  (IF nwsPointsData # Undefined
     THEN (IF \/ nwsForecastSuccess(vs["nwsForecast"])
              \/ nwsObservationsSuccess(vs["nwsObservations"])
              \/ nwsAlertSuccess(vs["nwsAlert"])
             THEN {"nwsHeader"} ELSE {})
          \cup (IF nwsAlertSuccess(vs["nwsAlert"]) THEN {"alerts"} ELSE {})
          \cup (IF nwsObservationsSuccess(vs["nwsObservations"])
                  THEN {"observations"} ELSE {})
          \cup (IF nwsForecastSuccess(vs["nwsForecast"])
                  THEN {"forecast"} ELSE {})
     ELSE {})
  \cup (IF airnowForecastSuccess(vs["airnowForecast"])
          THEN {"airnowForecast"} ELSE {})

\* Lines 762-796: the scan of the AirNow forecast.  i is the entry looked
\* at, idx the code's airnowDateIdx (0 or 1), out what has been shown: for
\* each entry its position in the feed, its date, and the day label written
\* in front of it ("" when none).
RECURSIVE airnowScan(_, _, _, _, _, _)
airnowScan(feed, dates, i, idx, newDate, out) ==
  IF i > Len(feed) THEN out
  ELSE LET cur == feed[i]
           advance == idx < Len(dates) - 1 /\ cur = dates[idx + 2]
           idx2 == IF advance THEN idx + 1 ELSE idx
           new2 == advance \/ newDate
           shown == cur = dates[idx2 + 1]
           item == [entry |-> i, date |-> cur,
                    label |-> IF new2 THEN dayStr[idx2 + 1] ELSE ""]
       IN airnowScan(feed, dates, i + 1, idx2,
                     IF shown THEN FALSE ELSE new2,
                     IF shown THEN Append(out, item) ELSE out)

\* Lines 760-761
renderAirnow(feed, dates) == airnowScan(feed, dates, 1, 0, TRUE, <<>>)

\* Lines 743-751: the loop over the first Math.min(4, periods.length)
\* periods.  i is the period looked at, out what has been shown: for each
\* period its position in the forecast and its name.
RECURSIVE periodScan(_, _, _, _)
periodScan(periods, limit, i, out) ==
  IF i > limit THEN out
  ELSE periodScan(periods, limit, i + 1,
                  Append(out, [entry |-> i, name |-> periods[i]]))

\* Faulty variant of renderPeriods: every period is shown.
renderPeriods_all(periods) == periodScan(periods, Len(periods), 1, <<>>)

\* Line 744
renderPeriods(periods) ==
  periodScan(periods, IF Len(periods) < 4 THEN Len(periods) ELSE 4, 1, <<>>)

\* Lines 693-702 and 713 read user.dateFormat after the await; the AirNow
\* scan uses the dates renderForecast computed before it (529-539).
forecastContent(u, nwsPointsData, vs, dates, feed, periods) ==
  [Fragment("forecast", 0, NoVal,
     IF /\ nwsPointsData # Undefined
        /\ \/ nwsAlertSuccess(vs["nwsAlert"])
           \/ nwsObservationsSuccess(vs["nwsObservations"])
       THEN u.dateFormat ELSE NoVal,
     forecastParts(nwsPointsData, vs), {})
   EXCEPT !.airnow =
            IF airnowForecastSuccess(vs["airnowForecast"])
              THEN renderAirnow(feed, dates) ELSE <<>>,
          !.periods =
            IF nwsPointsData # Undefined /\ nwsForecastSuccess(vs["nwsForecast"])
              THEN renderPeriods(periods) ELSE <<>>]

\* Lines 818-828: the tuple renderForecast returns, joined to renderWeather's.
forecastTuple(t, vs) ==
  [t EXCEPT
     !.nwsAlertRequestSuccess = round2RequestSuccess(vs["nwsAlert"]),
     !.nwsForecastRequestSuccess = round2RequestSuccess(vs["nwsForecast"]),
     !.nwsObservationsRequestSuccess =
        round2RequestSuccess(vs["nwsObservations"]),
     !.airnowForecastRequestSuccess =
        round2RequestSuccess(vs["airnowForecast"]),
     !.nwsAlertDataExists = nwsAlertSuccess(vs["nwsAlert"]),
     !.nwsForecastDataExists = nwsForecastSuccess(vs["nwsForecast"]),
     !.nwsObservationsDataExists =
        nwsObservationsSuccess(vs["nwsObservations"]),
     !.airnowForecastDataExists = airnowForecastSuccess(vs["airnowForecast"])]

\* ------------------------------------------------------------ ssr.ts: renderPage
\* Lines 953-979: the module-level user object is overwritten from the
\* request; localizedDate and dateFormat are built from user.timezone.
userFor(cf, nonce) ==
  LET tz == IF cf.timezone # Undefined THEN cf.timezone ELSE DefaultTimezone
  IN [timezone |-> tz, localizedDate |-> tz, dateFormat |-> tz,
      latitude |-> IF cf.latitude # Undefined
                     THEN cf.latitude ELSE DefaultLatitude,
      longitude |-> IF cf.longitude # Undefined
                      THEN cf.longitude ELSE DefaultLongitude,
      nonce |-> nonce]

\* Lines 983-984: the two fragments written before the first await.
pageStart(u) == <<renderHead(u), renderGeolocation(u)>>

\* ssr.ts 250-265: the three round-1 calls.  WAQI is always enabled, the
\* NWS points lookup and the AirNow reading only for a US country code.
round1Enabled(c, cf) == IF c = "waqi" THEN TRUE ELSE countryIsUS(cf)

\* Faulty variant of round1Calls: the AirNow reading is not started with
\* the other two but left for after the NWS points lookup.
round1Calls_airnowLater(u, cf) ==
  [c \in CallIds |->
     IF c \in Round1Calls \ {"airnowSensor"}
       THEN fetchProducts(u.latitude, round1Enabled(c, cf))
       ELSE IdleCall]

round1Calls(u, cf) ==
  [c \in CallIds |->
     IF c \in Round1Calls
       THEN fetchProducts(u.latitude, round1Enabled(c, cf))
       ELSE IdleCall]

\* The values Promise.allSettled hands back for the calls of a round.
settledValues(cs, round) == [c \in round |-> cs[c].res]

\* The promises of a round are dropped once their values are consumed.
release(cs, round) ==
  [c \in CallIds |-> IF c \in round THEN IdleCall ELSE cs[c]]

\* How a call ended, as the join finds it: skipped (disabled), the kind of
\* failure (non2xx, transport, timeout, parseError) or the shape parsed.
outcomeOf(k) ==
  IF ~k.enabled THEN "skipped"
  ELSE IF k.upstream = "parsed" THEN k.json
  ELSE k.upstream

\* The calls of each round in the order the array literal passed to
\* Promise.allSettled evaluates them (ssr.ts 252-264 and 575-594).
Round1Order == <<"waqi", "nwsPoints", "airnowSensor">>
Round2Order ==
  <<"nwsAlert", "nwsForecast", "nwsObservations", "airnowForecast">>

\* One entry per fetch() that goes out, in evaluation order.
fetchEvents(order, issued) ==
  LET Goes(c) == c \in issued
  IN [i \in 1..Len(SelectSeq(order, Goes)) |->
        <<"fetch", SelectSeq(order, Goes)[i]>>]

\* Faulty variant of startLog: renderWeather is started, and its requests
\* go out, before the first two fragments are written.
startLog_fetchFirst(cf) ==
  fetchEvents(Round1Order, {c \in Round1Calls : round1Enabled(c, cf)})
    \o <<(<<"write", "head">>), (<<"write", "geolocation">>), (<<"respond", "">>)>>

\* ssr.ts 983-996, then part_003 804-806: head and geolocation are written,
\* renderWeather launches round 1 and suspends, renderPage suspends, and
\* the handler returns the Response that carries the readable side.
startLog(cf) ==
  <<(<<"write", "head">>), (<<"write", "geolocation">>)>>
    \o fetchEvents(Round1Order, {c \in Round1Calls : round1Enabled(c, cf)})
    \o <<(<<"respond", "">>)>>

\* ssr.ts 997-1008: the current-conditions fragment is written, then
\* renderForecast is entered and launches round 2.
round2Log(t) ==
  <<(<<"write", "weather">>)>>
    \o fetchEvents(Round2Order, {c \in Round2Calls : round2Enabled(c, t)})

\* ssr.ts 1009-1037
finishLog == <<(<<"write", "forecast">>), (<<"write", "footer">>), (<<"close", "">>)>>

\* ------------------------------------------------------------ index.ts: the fetch handler
\* A string-valued property that may be absent: request.cf?.tlsVersion and
\* the query parameters id and refreshed.
Absent == [present |-> FALSE, value |-> <<>>]
Str(s) == [present |-> TRUE, value |-> s]

TLSv1 == <<"T", "L", "S", "v", "1">>
TLSv11 == <<"T", "L", "S", "v", "1", ".", "1">>
TLSv12 == <<"T", "L", "S", "v", "1", ".", "2">>
TLSv13 == <<"T", "L", "S", "v", "1", ".", "3">>

\* What the platform reports: nothing, the empty string of a plaintext
\* connection, or the protocol version.
TlsChoices == {Absent, Str(<<>>), Str(TLSv1), Str(TLSv11), Str(TLSv12), Str(TLSv13)}

Methods == {"GET", "HEAD", "POST"}

\* part_003 645-651
STATIC_URLS ==
  {"/favicon.ico", "/favicon.svg", "/robots.txt",
   "/SourceSans3-Regular.otf.woff2", "/SourceSans3-Bold.otf.woff2"}
\* part_003 652-653
RADAR_PROXY_URL == "/radarproxy/"
WORKER_URL == "/"

PathChoices ==
  {WORKER_URL, RADAR_PROXY_URL, "/favicon.ico", "/robots.txt", "/radarproxy",
   "/index.html"}

IdChoices ==
  {Absent, Str(<<>>), Str(<<"K", "L", "O">>), Str(<<"k", "l", "o", "t">>),
   Str(<<"K", "L", "O", "T", "X">>)}
RefreshedChoices == {Absent, Str(<<>>), Str(<<"1">>)}

Requests ==
  [tls : TlsChoices, method : Methods, path : PathChoices, id : IdChoices,
   refreshed : RefreshedChoices]

\* The request of a browser that opens the page.
GetRoot ==
  [tls |-> Str(TLSv13), method |-> "GET", path |-> WORKER_URL, id |-> Absent,
   refreshed |-> Absent]

NoRequest ==
  [tls |-> Absent, method |-> "", path |-> "", id |-> Absent, refreshed |-> Absent]

\* What the handler has done for a request: the Response it returned
\* (status 0 while none, or when the status is the asset's or the
\* upstream's), the fetches it made, the headers it set itself.
NoAnswer ==
  [request |-> NoRequest, returned |-> FALSE, status |-> 0, allow |-> "",
   assets |-> 0, upstream |-> <<>>, headers |-> {}]

\* Faulty variant of tlsAccepted: any reported version passes.
tlsAccepted_anyVersion(tls) == tls.present

\* part_003 698-704: typeof tlsVersion === "string" and the upper-cased
\* version includes "TLSV1.2" or "TLSV1.3".
tlsAccepted(tls) ==
  /\ tls.present
  /\ \/ includes(toUpperCase(tls.value), <<"T", "L", "S", "V", "1", ".", "2">>)
     \/ includes(toUpperCase(tls.value), <<"T", "L", "S", "V", "1", ".", "3">>)

\* searchParams.get(name) as a condition: null and "" are falsy.
truthy(param) == param.present /\ Len(param.value) > 0

\* part_003 740-745
radarProxyMatches(q) ==
  /\ RADAR_PROXY_URL = q.path
  /\ truthy(q.id)
  /\ truthy(q.refreshed)
  /\ q.id.present /\ Len(q.id.value) = 4

\* Faulty variant of route: static assets are matched before the TLS
\* and method checks.
route_staticFirst(q) ==
  IF q.path \in STATIC_URLS THEN "asset"
  ELSE IF ~tlsAccepted(q.tls) THEN "forbidden"
  ELSE IF q.method # "GET" THEN "methodNotAllowed"
  ELSE IF radarProxyMatches(q) THEN "radar"
  ELSE IF WORKER_URL = q.path THEN "page"
  ELSE "notFound"

\* part_003 698-814: the order of the handler's ifs.
route(q) ==
  IF ~tlsAccepted(q.tls) THEN "forbidden"
  ELSE IF q.method # "GET" THEN "methodNotAllowed"
  ELSE IF q.path \in STATIC_URLS THEN "asset"
  ELSE IF radarProxyMatches(q) THEN "radar"
  ELSE IF WORKER_URL = q.path THEN "page"
  ELSE "notFound"

\* part_003 746: radarId
radarIdOf(q) == toUpperCase(q.id.value)

\* part_003 772-786 and 624-633, 708-711, 724, 763-772, 803-805, 811-814:
\* the synchronous part of each branch.  The radar proxy has only issued
\* its first fetch, with the image transform.
answer(q) ==
  LET rt == route(q)
      a == [NoAnswer EXCEPT !.request = q]
  IN CASE rt = "forbidden" -> [a EXCEPT !.returned = TRUE, !.status = 403]
       [] rt = "methodNotAllowed" ->
            [a EXCEPT !.returned = TRUE, !.status = 405, !.allow = "GET"]
       [] rt = "asset" -> [a EXCEPT !.returned = TRUE, !.assets = 1]
       [] rt = "radar" -> [a EXCEPT !.upstream = <<(<<"transform", radarIdOf(q)>>)>>]
       [] rt = "page" -> [a EXCEPT !.returned = TRUE, !.status = 200]
       [] OTHER -> [a EXCEPT !.returned = TRUE, !.status = 404]

\* part_003 784-790: the headers the proxy sets on the recreated response.
proxyHeaders == {"Access-Control-Allow-Origin", "Cache-Control", "Vary"}

\* ------------------------------------------------------------ state
\* Everything but the credentials, which are the deployment's.
InitPage ==
  /\ user = [timezone |-> DefaultTimezone, localizedDate |-> "system",
             dateFormat |-> "system", latitude |-> DefaultLatitude,
             longitude |-> DefaultLongitude, nonce |-> 0]
  /\ req = [r \in Reqs |-> [pc |-> "idle", cf |-> NoCf, nonce |-> 0, dates |-> <<>>]]
  /\ calls = [r \in Reqs |-> [c \in CallIds |-> IdleCall]]
  /\ netCalls = [r \in Reqs |-> [c \in CallIds |-> 0]]
  /\ sink = [r \in Reqs |-> <<>>]
  /\ closed = [r \in Reqs |-> 0]
  /\ ret = [r \in Reqs |-> NoReturn]
  /\ nonceCount = 0
  /\ seen = [r \in Reqs |-> [c \in CallIds |-> NoVal]]
  /\ log = [r \in Reqs |-> <<>>]
  /\ body = [r \in Reqs |-> NoBody]
  /\ http = [r \in Reqs |-> NoAnswer]
  /\ aqi = <<>>

Init == InitPage /\ secrets = AllSecrets

\* part_003 635-816, and for the page renderPage up to its first await
\* (ssr.ts 950-996 and renderWeather 221-265): the handler draws a fresh
\* nonce and takes the first branch that matches.  The page branch opens
\* the stream and starts renderPage, which overwrites user, writes head
\* and geolocation and launches round 1.
fetchHandler(r, q, cf) ==
  /\ req[r].pc = "idle"
  /\ \A p \in Reqs : p < r => req[p].pc # "idle"
  /\ LET nonce == nonceCount + 1
         u == userFor(cf, nonce)
         rt == route(q)
     IN /\ nonceCount' = nonce
        /\ http' = [http EXCEPT ![r] = answer(q)]
        /\ IF rt = "page"
             THEN /\ user' = u
                  /\ req' = [req EXCEPT ![r] =
                       [pc |-> "round1", cf |-> cf, nonce |-> nonce, dates |-> <<>>]]
                  /\ sink' = [sink EXCEPT ![r] = pageStart(u)]
                  /\ calls' = [calls EXCEPT ![r] = round1Calls(u, cf)]
                  /\ netCalls' = [netCalls EXCEPT ![r] =
                       [c \in CallIds |->
                          IF c \in Round1Calls
                            THEN fetchIssued(round1Enabled(c, cf)) ELSE 0]]
                  /\ log' = [log EXCEPT ![r] = startLog(cf)]
             ELSE /\ req' = [req EXCEPT ![r] =
                       [pc |-> IF rt = "radar" THEN "proxy1" ELSE "answered",
                        cf |-> cf, nonce |-> nonce, dates |-> <<>>]]
                  /\ UNCHANGED <<user, sink, calls, netCalls, log>>
  /\ UNCHANGED <<closed, ret, seen, body, secrets, aqi>>

\* A browser opens the page over TLS 1.3.
Arrive(r, cf) == fetchHandler(r, GetRoot, cf)

\* part_003 773-795: the first fetch resolved.  A response that is ok or
\* redirected is returned with the proxy's headers; any other makes the
\* handler fetch the original image.
RadarFirst(r, ok, redirected) ==
  /\ req[r].pc = "proxy1"
  /\ IF ok \/ redirected
       THEN /\ http' = [http EXCEPT ![r].returned = TRUE,
                                    ![r].headers = proxyHeaders]
            /\ req' = [req EXCEPT ![r].pc = "answered"]
       ELSE /\ http' = [http EXCEPT ![r].upstream =
                          Append(@, <<"plain", radarIdOf(http[r].request)>>)]
            /\ req' = [req EXCEPT ![r].pc = "proxy2"]
  /\ UNCHANGED <<user, calls, netCalls, sink, closed, ret, nonceCount, seen, log,
                 body, secrets, aqi>>

\* part_003 781-795: the second fetch resolved, with whatever status.
RadarSecond(r) ==
  /\ req[r].pc = "proxy2"
  /\ http' = [http EXCEPT ![r].returned = TRUE, ![r].headers = proxyHeaders]
  /\ req' = [req EXCEPT ![r].pc = "answered"]
  /\ UNCHANGED <<user, calls, netCalls, sink, closed, ret, nonceCount, seen, log,
                 body, secrets, aqi>>

\* part_003 763 and 781: fetch() rejects (DNS, connection, TLS).  Neither
\* await is inside a try, so the handler's promise rejects.
RadarFetchRejects(r) ==
  /\ req[r].pc \in {"proxy1", "proxy2"}
  /\ req' = [req EXCEPT ![r].pc = "threw"]
  /\ UNCHANGED <<user, calls, netCalls, sink, closed, ret, nonceCount, seen, log,
                 body, secrets, http, aqi>>

\* ------------------------------------------------------------ network and timers
\* The response headers of call c arrive, 2xx or not.
ResponseArrives(r, c, ok) ==
  /\ calls[r][c].st = "headers"
  /\ calls' = [calls EXCEPT ![r][c] =
       onResponse([@ EXCEPT !.upstream = IF ok THEN "ok" ELSE "non2xx"], ok)]
  /\ UNCHANGED <<user, req, netCalls, sink, closed, ret, nonceCount, seen, log, body, secrets, http, aqi>>

\* DNS, connection or TLS failure: fetch() rejects.
TransportFails(r, c) ==
  /\ calls[r][c].st = "headers"
  /\ calls' = [calls EXCEPT ![r][c] =
       onFetchRejected([@ EXCEPT !.upstream = "transport"])]
  /\ UNCHANGED <<user, req, netCalls, sink, closed, ret, nonceCount, seen, log, body, secrets, http, aqi>>

\* Faulty variant of TimeoutFires: one AbortController shared by all
\* calls, so the abort rejects every fetch() still waiting for headers.
TimeoutFires_sharedController(r, c) ==
  /\ calls[r][c].st = "headers"
  /\ calls[r][c].timer = "armed"
  /\ calls' = [q \in Reqs |-> [d \in CallIds |->
       IF q = r /\ d = c
         THEN onTimeout([calls[q][d] EXCEPT !.upstream = "timeout"])
         ELSE IF calls[q][d].st = "headers"
           THEN onFetchRejected(calls[q][d])
           ELSE calls[q][d]]]
  /\ UNCHANGED <<user, req, netCalls, sink, closed, ret, nonceCount, seen, log, body, secrets, http, aqi>>

\* fetchTimeout ms after the call began its timer, still armed, fires.
TimeoutFires(r, c) ==
  /\ calls[r][c].st = "headers"
  /\ calls[r][c].timer = "armed"
  /\ calls' = [calls EXCEPT ![r][c] =
       onTimeout([@ EXCEPT !.upstream = "timeout"])]
  /\ UNCHANGED <<user, req, netCalls, sink, closed, ret, nonceCount, seen, log, body, secrets, http, aqi>>

\* fetchTimeout ms after the call began it is still reading the body; its
\* timer was cleared at line 69, so nothing runs.
DeadlinePasses(r, c) ==
  /\ calls[r][c].st = "body"
  /\ calls[r][c].timer = "cleared"
  /\ ~calls[r][c].overdue
  /\ calls' = [calls EXCEPT ![r][c].overdue = TRUE]
  /\ UNCHANGED <<user, req, netCalls, sink, closed, ret, nonceCount, seen, log, body, secrets, http, aqi>>

\* The body was read and parsed as JSON of the given shape.
\* A full WAQI body brings the readings b.reading, a full AirNow forecast
\* body the entries b.feed, a full AirNow observation body the entries
\* b.sensors, a full NWS forecast body the periods b.periods.
BodyParsed(r, c, shape, b) ==
  /\ calls[r][c].st = "body"
  /\ shape \in Shapes(c)
  /\ Answerable(c, shape, secrets)
  /\ calls' = [calls EXCEPT ![r][c] =
       onJson([@ EXCEPT !.upstream = "parsed", !.json = shape], shape)]
  /\ body' =
       IF shape = "full" /\ c = "waqi"
         THEN [body EXCEPT ![r].reading = b.reading]
       ELSE IF shape = "full" /\ c = "airnowForecast"
         THEN [body EXCEPT ![r].feed = b.feed]
       ELSE IF shape = "full" /\ c = "airnowSensor"
         THEN [body EXCEPT ![r].sensors = b.sensors]
       ELSE IF shape = "full" /\ c = "nwsForecast"
         THEN [body EXCEPT ![r].periods = b.periods]
       ELSE body
  /\ UNCHANGED <<user, req, netCalls, sink, closed, ret, nonceCount, seen, log, secrets, http, aqi>>

\* The body was not JSON (or could not be read): response.json() rejects.
BodyFails(r, c) ==
  /\ calls[r][c].st = "body"
  /\ calls' = [calls EXCEPT ![r][c] =
       onJsonRejected([@ EXCEPT !.upstream = "parseError"])]
  /\ UNCHANGED <<user, req, netCalls, sink, closed, ret, nonceCount, seen, log, body, secrets, http, aqi>>

\* ------------------------------------------------------------ the two joins
\* Faulty variant of RoundSettled: the join resumes on the first call that
\* settles (Promise.race / Promise.any) instead of on all of them.
RoundSettled_first(r, round) == \E c \in round : Settled(calls[r][c])

\* Promise.allSettled resolves once every promise of the round has settled.
RoundSettled(r, round) == \A c \in round : Settled(calls[r][c])

\* ssr.ts 997: the current-conditions fragment goes to the writer.
writeWeather(sk, u, vs, rd, sensors) ==
  Append(sk, weatherContent(u, vs, rd, sensors))

\* Faulty variant of writeForecastAndFooter: the footer, which needs no
\* further await, is written ahead of the forecast fragment.
writeForecastAndFooter_footerFirst(sk, u, t, vs, dates, b) ==
  sk \o <<renderFooter(u, t),
          forecastContent(u, t.nwsPointsData, vs, dates, b.feed, b.periods)>>

\* ssr.ts 1009-1030: the forecast fragment, then the footer.
writeForecastAndFooter(sk, u, t, vs, dates, b) ==
  sk \o <<forecastContent(u, t.nwsPointsData, vs, dates, b.feed, b.periods),
          renderFooter(u, t)>>

\* ssr.ts 1037: writer.close()
closeWriter(n) == n + 1

\* Round 1 has settled: renderWeather resumes (ssr.ts 269-496), renderPage
\* writes its fragment (997) and enters renderForecast, which runs up to its
\* own await (526-595).  A TypeError raised on the way rejects renderPage:
\* it has no try/catch, and nothing after the throw runs.
Round1Join(r) ==
  /\ req[r].pc = "round1"
  /\ RoundSettled(r, Round1Calls)
  /\ LET vs == settledValues(calls[r], Round1Calls)
         t == weatherTuple(vs)
     IN IF renderWeatherThrows(vs)
          THEN /\ req' = [req EXCEPT ![r].pc = "rejected"]
               /\ calls' = [calls EXCEPT ![r] = release(@, Round1Calls)]
               /\ UNCHANGED <<sink, ret, netCalls, log>>
          ELSE /\ sink' = [sink EXCEPT ![r] = writeWeather(@, user, vs, body[r].reading,
                                                       body[r].sensors)]
               /\ ret' = [ret EXCEPT ![r] = t]
               /\ IF renderForecastPrefixThrows(t.nwsPointsData)
                    THEN /\ req' = [req EXCEPT ![r].pc = "rejected"]
                         /\ calls' = [calls EXCEPT ![r] = release(@, Round1Calls)]
                         /\ log' = [log EXCEPT ![r] = @ \o <<(<<"write", "weather">>)>>]
                         /\ UNCHANGED netCalls
                    ELSE /\ req' = [req EXCEPT ![r].pc = "round2",
                                                ![r].dates = airnowDateStr(user)]
                         /\ calls' = [calls EXCEPT ![r] = round2Calls(user, t)]
                         /\ log' = [log EXCEPT ![r] = @ \o round2Log(t)]
                         /\ netCalls' = [netCalls EXCEPT ![r] =
                               [c \in CallIds |->
                                  IF c \in Round2Calls
                                    THEN @[c] + fetchIssued(round2Enabled(c, t))
                                    ELSE @[c]]]
  /\ seen' = [seen EXCEPT ![r] =
       [c \in CallIds |->
          IF c \in Round1Calls THEN outcomeOf(calls[r][c]) ELSE @[c]]]
  /\ UNCHANGED <<user, closed, nonceCount, body, secrets, http, aqi>>

\* Round 2 has settled: renderForecast resumes (ssr.ts 599-829), renderPage
\* writes the forecast fragment and the footer and closes the writer
\* (1009-1037), unless renderForecast raised.
Round2Join(r) ==
  /\ req[r].pc = "round2"
  /\ RoundSettled(r, Round2Calls)
  /\ LET vs == settledValues(calls[r], Round2Calls)
         t == forecastTuple(ret[r], vs)
     IN IF renderForecastThrows(ret[r].nwsPointsData, vs)
          THEN /\ req' = [req EXCEPT ![r].pc = "rejected"]
               /\ UNCHANGED <<sink, ret, closed, log>>
          ELSE /\ req' = [req EXCEPT ![r].pc = "done"]
               /\ log' = [log EXCEPT ![r] = @ \o finishLog]
               /\ ret' = [ret EXCEPT ![r] = t]
               /\ sink' = [sink EXCEPT ![r] = writeForecastAndFooter(@, user, t, vs, req[r].dates, body[r])]
               /\ closed' = [closed EXCEPT ![r] = closeWriter(@)]
  /\ calls' = [calls EXCEPT ![r] = release(@, Round2Calls)]
  /\ seen' = [seen EXCEPT ![r] =
       [c \in CallIds |->
          IF c \in Round2Calls THEN outcomeOf(calls[r][c]) ELSE @[c]]]
  /\ UNCHANGED <<user, netCalls, nonceCount, body, secrets, http, aqi>>

\* ------------------------------------------------------------ specifications
\* Spec: one page request, every upstream behaviour.
ArriveAlone == \E cf \in CfChoices : Arrive(1, cf)
Responds == \E r \in Reqs, c \in CallIds, ok \in BOOLEAN : ResponseArrives(r, c, ok)
Unreachable == \E r \in Reqs, c \in CallIds : TransportFails(r, c)
TimesOut == \E r \in Reqs, c \in CallIds : TimeoutFires(r, c)
Stalls == \E r \in Reqs, c \in CallIds : DeadlinePasses(r, c)
Parses ==
  \E r \in Reqs, c \in CallIds :
    \E shape \in Shapes(c), b \in SpecBodies : BodyParsed(r, c, shape, b)
ParseFails == \E r \in Reqs, c \in CallIds : BodyFails(r, c)
JoinsRound1 == \E r \in Reqs : Round1Join(r)
JoinsRound2 == \E r \in Reqs : Round2Join(r)

Next ==
  \/ ArriveAlone
  \/ Responds
  \/ Unreachable
  \/ TimesOut
  \/ Stalls
  \/ Parses
  \/ ParseFails
  \/ JoinsRound1
  \/ JoinsRound2

Spec == Init /\ [][Next]_vars

\* ConcSpec: up to MaxReqs page requests interleave in the isolate; every
\* upstream answers 2xx with a well-formed body.
ConcCf == {cfLosAngeles, cfToronto}
ArriveAny == \E r \in Reqs, cf \in ConcCf : Arrive(r, cf)
RespondsOk == \E r \in Reqs, c \in CallIds : ResponseArrives(r, c, TRUE)
ParsesFull == \E r \in Reqs, c \in CallIds : BodyParsed(r, c, "full", MildBody)

NextConc ==
  \/ ArriveAny
  \/ RespondsOk
  \/ ParsesFull
  \/ JoinsRound1
  \/ JoinsRound2

ConcSpec == Init /\ [][NextConc]_vars

\* Two requests with timeouts: request 1 comes from Los Angeles and makes
\* all seven calls, every later one comes from Toronto and calls WAQI.
ArriveStaggered ==
  \E r \in Reqs : Arrive(r, IF r = 1 THEN cfLosAngeles ELSE cfToronto)

NextAbort ==
  \/ ArriveStaggered
  \/ RespondsOk
  \/ TimesOut
  \/ ParsesFull
  \/ JoinsRound1
  \/ JoinsRound2

AbortSpec == Init /\ [][NextAbort]_vars

\* One request from outside the US, so that WAQI is the only call, whose
\* body brings any reading of the grid.
ArriveAbroad == Arrive(1, cfToronto)
ParsesGrid == \E b \in GridBodies : BodyParsed(1, "waqi", "full", b)

NextMetric ==
  \/ ArriveAbroad
  \/ RespondsOk
  \/ ParsesGrid
  \/ JoinsRound1
  \/ JoinsRound2

MetricSpec == Init /\ [][NextMetric]_vars

\* The same request served twice, one run after the other, each upstream
\* answering 2xx early or late or timing out, in any order.  Two runs are
\* what a comparison of runs needs, however many requests there may be.
ArriveInTurn ==
  \/ Arrive(1, cfLosAngeles)
  \/ (req[1].pc \in {"done", "rejected"} /\ Arrive(2, cfLosAngeles))

NextRerun ==
  \/ ArriveInTurn
  \/ RespondsOk
  \/ TimesOut
  \/ Stalls
  \/ ParsesFull
  \/ JoinsRound1
  \/ JoinsRound2

RerunSpec == Init /\ [][NextRerun]_vars

\* A deployment that lacks at least one of the three credentials.
InitCred == InitPage /\ secrets \in (SUBSET AllSecrets) \ {AllSecrets}

CredSpec == InitCred /\ [][Next]_vars

\* One request of any kind: every TLS version, method, path and query the
\* handler tells apart, and every behaviour of the radar upstream.
FetchAny == \E q \in Requests : fetchHandler(1, q, cfLosAngeles)
RadarResponds == \E ok \in BOOLEAN, redirected \in BOOLEAN : RadarFirst(1, ok, redirected)
RadarRespondsAgain == RadarSecond(1)
RadarUnreachable == RadarFetchRejects(1)

NextRouter ==
  \/ FetchAny
  \/ RadarResponds
  \/ RadarRespondsAgain
  \/ RadarUnreachable

RouterSpec == Init /\ [][NextRouter]_vars

\* A request from Los Angeles and, while it is served, one from Toronto;
\* every upstream answers 2xx, the AirNow forecast with any feed.
ArrivePair == Arrive(1, cfLosAngeles) \/ Arrive(2, cfToronto)
ParsesFeed == \E b \in FeedBodies : BodyParsed(1, "airnowForecast", "full", b)
ParsesRest ==
  \E r \in Reqs, c \in CallIds \ {"airnowForecast"} : BodyParsed(r, c, "full", MildBody)

NextFeed ==
  \/ ArrivePair
  \/ RespondsOk
  \/ ParsesFeed
  \/ ParsesRest
  \/ JoinsRound1
  \/ JoinsRound2

FeedSpec == Init /\ [][NextFeed]_vars

\* aqiToEmoji on its own: two calls, each with any input.
EvaluateAqi(x) ==
  /\ Len(aqi) < 2
  /\ aqi' = Append(aqi, [input |-> x, glyph |-> aqiToEmoji(x)])
  /\ UNCHANGED <<user, req, calls, netCalls, sink, closed, ret, nonceCount, seen,
                 log, body, secrets, http>>

EvaluatesAqi == \E x \in AqiInputs : EvaluateAqi(x)

AqiSpec == Init /\ [][EvaluatesAqi]_vars

\* One request from Los Angeles whose upstreams all answer 2xx, the NWS
\* forecast with any list of periods.
ArriveHome == Arrive(1, cfLosAngeles)
ParsesPeriods == \E b \in PeriodBodies : BodyParsed(1, "nwsForecast", "full", b)
ParsesButForecast ==
  \E c \in CallIds \ {"nwsForecast"} : BodyParsed(1, c, "full", MildBody)

NextPeriod ==
  \/ ArriveHome
  \/ RespondsOk
  \/ ParsesPeriods
  \/ ParsesButForecast
  \/ JoinsRound1
  \/ JoinsRound2

PeriodSpec == Init /\ [][NextPeriod]_vars

\* The same, the AirNow observations being any array.
ParsesSensors == \E b \in SensorBodies : BodyParsed(1, "airnowSensor", "full", b)
ParsesButSensor ==
  \E c \in CallIds \ {"airnowSensor"} : BodyParsed(1, c, "full", MildBody)

NextSensor ==
  \/ ArriveHome
  \/ RespondsOk
  \/ ParsesSensors
  \/ ParsesButSensor
  \/ JoinsRound1
  \/ JoinsRound2

SensorSpec == Init /\ [][NextSensor]_vars

\* ============================================================ properties
FragmentOrder == <<"head", "geolocation", "weather", "forecast", "footer">>

\* What the request itself determines: the context renderPage derives from it.
OwnContext(r) == userFor(req[r].cf, req[r].nonce)

\* A country code that names the United States, whatever its letter case.
IndicatesUS(cf) == cf.hasCountry /\ cf.country \in {<<"U", "S">>, <<"u", "s">>}

Started(r) == req[r].pc # "idle"
Finished(r) == req[r].pc \in {"done", "rejected"}

\* The transition on which request r consumes round 1 / round 2.
LeavesRound1(r) == req[r].pc = "round1" /\ req'[r].pc # "round1"
LeavesRound2(r) == req[r].pc = "round2" /\ req'[r].pc # "round2"

\* A call outcome the error taxonomy counts as a failure: no value at all
\* (timeout, non-2xx, transport, parse error) or a parsed body that lacks
\* the expected fields.  An empty list is a valid no-data answer.
InvalidShapes == {"noData", "noIaqi", "noProperties", "noCounty", "noPeriods"}
FailedCall(k) == k.enabled /\ (k.res = Null \/ k.res \in InvalidShapes)

\* The sub-section of a fragment that carries the data of one call.
PartOf(c) ==
  CASE c = "waqi" -> "waqi"
    [] c = "nwsPoints" -> "radar"
    [] c = "airnowSensor" -> "airnow"
    [] c = "nwsAlert" -> "alerts"
    [] c = "nwsForecast" -> "forecast"
    [] c = "nwsObservations" -> "observations"
    [] c = "airnowForecast" -> "airnowForecast"

\* C1: the fragments of every response are written in the order head,
\* geolocation, current conditions, forecast, footer, each at most once:
\* at every moment the sink holds a prefix of that sequence.
C1_FragmentOrder ==
  \A r \in Reqs :
    /\ Len(sink[r]) <= Len(FragmentOrder)
    /\ \A i \in 1..Len(sink[r]) : sink[r][i].kind = FragmentOrder[i]

\* C1 witness: a page written to the end although the WAQI call failed.
C1_Witness ==
  \E r \in Reqs :
    /\ Len(sink[r]) = 5
    /\ ~ret[r].waqiRequestSuccess
    /\ ret[r].nwsForecastDataExists

\* C2: whatever the upstreams did, once renderPage has settled the sink has
\* been closed, it is closed exactly once, and the footer was written
\* before it was closed.
C2_ClosedOnceAfterFooter ==
  \A r \in Reqs :
    /\ closed[r] <= 1
    /\ closed[r] = 1 =>
         (Len(sink[r]) > 0 /\ sink[r][Len(sink[r])].kind = "footer")
    /\ Finished(r) => closed[r] = 1

\* C3: no upstream outcome, a parsed body without the expected nested
\* fields included, makes renderWeather or renderForecast raise: renderPage
\* is never rejected.
C3_NoExceptionEscapes == \A r \in Reqs : req[r].pc # "rejected"

\* C4: a round is consumed only when all its calls have settled, and if
\* exactly one of its calls failed, the fragment of that round is written
\* and contains the data of every sibling that returned data.
C4_RoundKeepsSiblings(r, round, pos) ==
  /\ RoundSettled(r, round)
  /\ Cardinality({c \in round : FailedCall(calls[r][c])}) = 1 =>
       \A c \in round :
         calls[r][c].res = "full" =>
           (Len(sink'[r]) >= pos /\ PartOf(c) \in sink'[r][pos].parts)

C4_NoFailFast ==
  [][\A r \in Reqs :
       /\ LeavesRound1(r) => C4_RoundKeepsSiblings(r, Round1Calls, 3)
       /\ LeavesRound2(r) => C4_RoundKeepsSiblings(r, Round2Calls, 4)]_vars

\* C5: a call that is still unsettled when fetchTimeout has elapsed does not
\* exist: by then the call has settled, in whichever stage it was.
C5_TimeoutBoundsCall ==
  \A r \in Reqs, c \in CallIds : calls[r][c].overdue => Settled(calls[r][c])

\* C6: fetchProducts always resolves with a value; the parsed body exactly
\* when the response was 2xx and its body parsed; null when disabled (and
\* then no request went out), on a non-2xx status (and then the body was
\* not read), on a transport failure, on a timeout and on a parse failure.
C6_OutcomeNormalized ==
  \A r \in Reqs, c \in CallIds :
    LET k == calls[r][c] IN
      /\ k.st \in {"none", "headers", "body", "settled"}
      /\ Settled(k) => k.res \in {Null} \cup Shapes(c)
      /\ (Settled(k) /\ ~k.enabled) =>
           (k.res = Null /\ netCalls[r][c] = 0 /\ ~k.bodyRead)
      /\ k.upstream = "non2xx" => (Settled(k) /\ k.res = Null /\ ~k.bodyRead)
      /\ k.upstream \in {"transport", "timeout", "parseError"} =>
           (Settled(k) /\ k.res = Null)
      /\ k.upstream = "parsed" => (Settled(k) /\ k.res = k.json)
      /\ (Settled(k) /\ k.res # Null) => k.upstream = "parsed"

\* C6 witness: one round in which a body was parsed, a status was non-2xx
\* and a timer fired.
C6_Witness ==
  \E r \in Reqs :
    /\ calls[r]["waqi"].upstream = "parsed"
    /\ calls[r]["nwsPoints"].upstream = "non2xx"
    /\ calls[r]["airnowSensor"].upstream = "timeout"

\* C7: when round 1 is consumed, the NWS alert, forecast and observation
\* requests go out exactly if the points lookup succeeded, the AirNow
\* forecast request exactly if the AirNow reading succeeded, and the
\* render goes on towards completion either way.
C7_Round2Gating ==
  [][\A r \in Reqs :
       LeavesRound1(r) =>
         /\ \A c \in Round2Calls \ {"airnowForecast"} :
              (netCalls'[r][c] = 1) <=> (calls[r]["nwsPoints"].res = "full")
         /\ (netCalls'[r]["airnowForecast"] = 1)
              <=> (calls[r]["airnowSensor"].res = "full")
         /\ req'[r].pc # "rejected"]_vars

\* C8: a request whose country does not name the US makes no request to
\* the NWS or to AirNow in either round; WAQI alone is called, once.
C8_NonUSCallsOnlyWaqi ==
  \A r \in Reqs :
    (Started(r) /\ ~IndicatesUS(req[r].cf)) =>
      /\ netCalls[r]["waqi"] = 1
      /\ \A c \in CallIds \ {"waqi"} : netCalls[r][c] = 0

\* C8 witness: a finished page for a request from outside the US.
C8_Witness ==
  \E r \in Reqs :
    /\ req[r].pc = "done"
    /\ req[r].cf.hasCountry
    /\ ~IndicatesUS(req[r].cf)
    /\ netCalls[r]["waqi"] = 1

\* C9: whatever a render reads from the request context after an await is
\* what its own request determined: the coordinates in every request URL
\* and fragment, and the timezone of every date it formats.
C9_ContextFixed ==
  \A r \in Reqs :
    /\ \A c \in CallIds :
         calls[r][c].lat \in {NoVal, OwnContext(r).latitude}
    /\ \A i \in 1..Len(sink[r]) :
         /\ sink[r][i].lat \in {NoVal, OwnContext(r).latitude}
         /\ sink[r][i].tz \in {NoVal, OwnContext(r).timezone}

\* C10: every fragment with an inline script or style carries the nonce
\* drawn for its own response, the one in its Content-Security-Policy.
C10_NonceThreaded ==
  \A r \in Reqs :
    \A i \in 1..Len(sink[r]) : sink[r][i].nonce \in {0, req[r].nonce}

\* ------------------------------------------------------------ footer and sections
\* The ways a call that went out ends, as the error taxonomy sorts them.
FailureKinds == {"non2xx", "transport", "timeout", "parseError"}
\* 2xx bodies without the expected top-level structure; an empty list is
\* the valid answer of a provider that has nothing to report.
NoDataShapes == {"noData", "noProperties", "empty"}

\* Failed or timed out, succeeded without data, succeeded with data.  A
\* body that parses but misses its fields is left out: it counts as a
\* failure or as absent data depending on the reading.
OutcomeClass(o) ==
  IF o \in FailureKinds THEN "failed"
  ELSE IF o = "empty" THEN "noData"
  ELSE IF o = "full" THEN "data"
  ELSE "none"

HasFooter(r) == Len(sink[r]) = 5 /\ sink[r][5].kind = "footer"

\* The pair of glyphs the footer of request r shows for call c.
Indicator(r, c) ==
  LET e == CHOOSE x \in sink[r][5].status : x[1] = c
  IN <<e[2], e[3]>>

\* The sub-sections written so far to the sink of request r.
PartsWritten(r) == UNION {sink[r][i].parts : i \in 1..Len(sink[r])}

\* C11: in the footer of a page, a call that failed or timed out, a call
\* that succeeded without data and a call that succeeded with data show
\* three different indicators: two calls whose outcomes fall in different
\* classes never carry the same pair of glyphs.
C11_ThreeIndicators ==
  \A r \in Reqs :
    HasFooter(r) =>
      \A c, d \in CallIds :
        ( /\ OutcomeClass(seen[r][c]) # "none"
          /\ OutcomeClass(seen[r][d]) # "none"
          /\ OutcomeClass(seen[r][c]) # OutcomeClass(seen[r][d]) )
        => Indicator(r, c) # Indicator(r, d)

\* The indicator of a call that succeeded and returned no data: no timeout
\* glyph, and the glyph of absent data.
SucceededNoData == <<timeoutStatusEmoji(TRUE), statusEmoji(FALSE)>>

\* C12: after a successful points lookup, an alerts answer with an empty
\* features list leaves the alerts sub-section out and is marked in the
\* footer as succeeded without data; an alerts call that failed or timed
\* out is marked differently.
C12_EmptyAlertsVersusFailure ==
  \A r \in Reqs :
    (HasFooter(r) /\ seen[r]["nwsPoints"] = "full") =>
      /\ seen[r]["nwsAlert"] = "empty" =>
           /\ "alerts" \notin PartsWritten(r)
           /\ Indicator(r, "nwsAlert") = SucceededNoData
      /\ seen[r]["nwsAlert"] \in FailureKinds =>
           Indicator(r, "nwsAlert") # SucceededNoData

\* C13: nothing of a failed provider is written; when the three round-1
\* calls all time out the geolocation fragment is still there, the
\* current-conditions fragment is absent or empty (no temperature,
\* humidity, dew point, wind or AQI line), and the footer shows the three
\* calls as timed out.
C13_FailedProviderLeavesNoReading ==
  \A r \in Reqs :
    /\ \A c \in CallIds :
         seen[r][c] \in FailureKinds => PartOf(c) \notin PartsWritten(r)
    /\ (\A c \in Round1Calls : seen[r][c] = "timeout") =>
         /\ Len(sink[r]) >= 2 /\ sink[r][2].kind = "geolocation"
         /\ \A i \in 1..Len(sink[r]) :
              sink[r][i].kind = "weather" => sink[r][i].parts = {}
         /\ HasFooter(r) =>
              \A c \in Round1Calls :
                Indicator(r, c) = <<timeoutStatusEmoji(FALSE), statusEmoji(FALSE)>>

\* The has-usable-data flag the render keeps for call c.
DataExists(r, c) ==
  CASE c = "waqi" -> ret[r].waqiDataExists
    [] c = "nwsPoints" -> ret[r].nwsPointsDataExists
    [] c = "airnowSensor" -> ret[r].airnowSensorDataExists
    [] c = "nwsAlert" -> ret[r].nwsAlertDataExists
    [] c = "nwsForecast" -> ret[r].nwsForecastDataExists
    [] c = "nwsObservations" -> ret[r].nwsObservationsDataExists
    [] c = "airnowForecast" -> ret[r].airnowForecastDataExists

\* C14: a 2xx answer whose body lacks the expected top-level structure
\* (WAQI without data, NWS points or forecast without properties, alerts
\* or observations without a non-empty features list, AirNow without a
\* non-empty array) leaves the call's has-usable-data flag false and none
\* of its content in the page.
C14_MalformedBodyIsNoData ==
  \A r \in Reqs :
    \A c \in CallIds :
      seen[r][c] \in NoDataShapes =>
        /\ ~DataExists(r, c)
        /\ PartOf(c) \notin PartsWritten(r)

\* C14 witness: a finished page whose WAQI answer had no data, whose NWS
\* forecast had no properties and whose alerts list was empty.
C14_Witness ==
  \E r \in Reqs :
    /\ HasFooter(r)
    /\ seen[r]["waqi"] = "noData"
    /\ seen[r]["nwsForecast"] = "noProperties"
    /\ seen[r]["nwsAlert"] = "empty"
    /\ seen[r]["airnowSensor"] = "empty"

\* ------------------------------------------------------------ ordering of writes and calls
WroteHead == <<"write", "head">>
WroteGeolocation == <<"write", "geolocation">>
WroteWeather == <<"write", "weather">>
Responded == <<"respond", "">>

\* Event a occurs in the log of request r ahead of position j.
OccursBefore(r, a, j) == \E i \in 1..(j - 1) : log[r][i] = a

\* C15: head and geolocation are written before any upstream request goes
\* out, and the Response is handed back while renderPage is still pending:
\* ahead of every later write and of the close.
C15_StartBeforeCalls ==
  \A r \in Reqs :
    /\ \A j \in DOMAIN log[r] :
         log[r][j][1] = "fetch" =>
           /\ OccursBefore(r, WroteHead, j)
           /\ OccursBefore(r, WroteGeolocation, j)
    /\ (\E c \in CallIds : netCalls[r][c] > 0) =>
         /\ Len(sink[r]) >= 2
         /\ sink[r][1].kind = "head"
         /\ sink[r][2].kind = "geolocation"
    /\ Started(r) =>
         \E i \in DOMAIN log[r] :
           /\ log[r][i] = Responded
           /\ \A j \in 1..(i - 1) :
                log[r][j] \in {WroteHead, WroteGeolocation} \/ log[r][j][1] = "fetch"

\* C15 witness: the Response is out and the first two fragments are in the
\* sink while all three round-1 calls are still waiting for their answer.
C15_Witness ==
  \E r \in Reqs :
    /\ req[r].pc = "round1"
    /\ Len(sink[r]) = 2
    /\ \E i \in DOMAIN log[r] : log[r][i] = Responded
    /\ \A c \in Round1Calls : InFlight(calls[r][c])

\* C16: round-2 requests go out only on a step that finds every round-1
\* call settled, and after the current-conditions fragment is written; a
\* round-1 call and a round-2 call are never in flight together.
C16_RoundsInSequence ==
  [][\A r \in Reqs :
       /\ (\E d \in Round2Calls : netCalls'[r][d] > netCalls[r][d]) =>
            /\ \A c \in Round1Calls : Settled(calls[r][c])
            /\ Len(sink'[r]) >= 3 /\ sink'[r][3].kind = "weather"
            /\ \A j \in DOMAIN log'[r] :
                 (log'[r][j][1] = "fetch" /\ log'[r][j][2] \in Round2Calls) =>
                   \E i \in 1..(j - 1) : log'[r][i] = WroteWeather
       /\ ~ \E c \in Round1Calls, d \in Round2Calls :
              InFlight(calls'[r][c]) /\ InFlight(calls'[r][d])]_vars

\* C16 witness: the four round-2 calls in flight, the current-conditions
\* fragment written, no round-1 call left.
C16_Witness ==
  \E r \in Reqs :
    /\ \A d \in Round2Calls : InFlight(calls[r][d])
    /\ Len(sink[r]) = 3
    /\ \A c \in Round1Calls : ~InFlight(calls[r][c])

\* Whether call c of request r is enabled, from what its round starts with.
EnabledIn(r, c) ==
  CASE c = "waqi" -> TRUE
    [] c \in {"nwsPoints", "airnowSensor"} -> IndicatesUS(req[r].cf)
    [] c = "airnowForecast" -> ret[r].airnowSensorData # Undefined
    [] OTHER -> ret[r].nwsPointsData # Undefined

RoundOf(c) == IF c \in Round1Calls THEN Round1Calls ELSE Round2Calls

\* C17: the step that starts a round launches every enabled call of the
\* round, and all of them are then waiting: none has settled.  So when a
\* call settles, every enabled call of its round has already gone out.
C17_LaunchedTogether ==
  [][\A r \in Reqs :
       /\ \A c \in CallIds :
            netCalls'[r][c] > netCalls[r][c] =>
              \A d \in RoundOf(c) :
                EnabledIn(r, d)' =>
                  /\ netCalls'[r][d] = netCalls[r][d] + 1
                  /\ calls'[r][d].st = "headers"
       /\ \A c \in CallIds :
            (InFlight(calls[r][c]) /\ Settled(calls'[r][c])) =>
              \A d \in RoundOf(c) : EnabledIn(r, d) => netCalls[r][d] = 1]_vars

\* C17 witness: one call of round 2 has settled while the other three,
\* launched with it, are still in flight.
C17_Witness ==
  \E r \in Reqs :
    /\ Settled(calls[r]["nwsAlert"]) /\ calls[r]["nwsAlert"].enabled
    /\ \A d \in Round2Calls \ {"nwsAlert"} : InFlight(calls[r][d])

\* C18: the step on which the timer of one call fires and aborts it leaves
\* every other call, of the same request and of any other, as it was.
C18_AbortIsLocal ==
  [][\A r \in Reqs, c \in CallIds :
       (calls[r][c].timer = "armed" /\ calls'[r][c].timer = "fired") =>
         \A q \in Reqs, d \in CallIds :
           (q # r \/ d # c) => calls'[q][d] = calls[q][d]]_vars

\* C18 witness: a call aborted by its timer while a sibling and a call of
\* another request went on to deliver their data.
C18_Witness ==
  \E r, q \in Reqs :
    /\ q # r
    /\ calls[r]["nwsPoints"].timer = "fired"
    /\ calls[r]["nwsPoints"].res = Null
    /\ calls[r]["airnowSensor"].res = "full"
    /\ calls[q]["waqi"].res = "full"

\* ------------------------------------------------------------ number of requests
\* C19: a render requests every endpoint at most once, whatever fails, so
\* at most three requests in round 1 and four in round 2; WAQI is
\* requested exactly once by every render.
C19_AtMostOncePerEndpoint ==
  \A r \in Reqs :
    /\ \A c \in CallIds : netCalls[r][c] <= 1
    /\ netCalls[r]["waqi"] + netCalls[r]["nwsPoints"]
         + netCalls[r]["airnowSensor"] <= 3
    /\ netCalls[r]["nwsAlert"] + netCalls[r]["nwsForecast"]
         + netCalls[r]["nwsObservations"] + netCalls[r]["airnowForecast"] <= 4
    /\ Started(r) => netCalls[r]["waqi"] = 1

\* C19 witness: a finished render that made all seven requests, two of
\* which failed and were not repeated.
C19_Witness ==
  \E r \in Reqs :
    /\ Finished(r)
    /\ \A c \in CallIds : netCalls[r][c] = 1
    /\ seen[r]["waqi"] \in FailureKinds
    /\ seen[r]["nwsAlert"] = "timeout"

\* C20 as stated: every render attempts the AirNow reading, and the AirNow
\* forecast is requested only if the reading succeeded.
C20_AirNowAlwaysAttempted ==
  \A r \in Reqs :
    /\ Started(r) => netCalls[r]["airnowSensor"] = 1
    /\ netCalls[r]["airnowForecast"] = 1 => seen[r]["airnowSensor"] = "full"

\* C20: the AirNow reading is attempted by exactly the renders whose
\* country code names the US, and the AirNow forecast is requested only if
\* the reading succeeded.
C20_AirNowGated ==
  \A r \in Reqs :
    /\ Started(r) =>
         ((netCalls[r]["airnowSensor"] = 1) <=> IndicatesUS(req[r].cf))
    /\ ~Started(r) => netCalls[r]["airnowSensor"] = 0
    /\ netCalls[r]["airnowForecast"] = 1 => seen[r]["airnowSensor"] = "full"

\* C20 witness: a US render whose AirNow reading succeeded and whose
\* AirNow forecast request went out, while the NWS lookup had failed.
C20_Witness ==
  \E r \in Reqs :
    /\ IndicatesUS(req[r].cf)
    /\ seen[r]["airnowSensor"] = "full"
    /\ seen[r]["nwsPoints"] \in FailureKinds
    /\ netCalls[r]["airnowForecast"] = 1

\* ------------------------------------------------------------ derived metrics
\* The current-conditions fragment of request r, once written.
HasWeather(r) == Len(sink[r]) >= 3 /\ sink[r][3].kind = "weather"
WeatherParts(r) == sink[r][3].parts

\* The reading request r rendered, in degrees Fahrenheit, percent and m/s.
ReadF(r) == tempFOf(body[r].reading.t)
ReadH(r) == body[r].reading.h
ReadW(r) == body[r].reading.w
WaqiUsed(r) == HasWeather(r) /\ ret[r].waqiDataExists

\* C22: the heat-index line is in the fragment only when the computed heat
\* index is above 80 F; at 70 F and 50 % it is not there; at 95 F and 60 %
\* the regression branch is taken (113.1 F) and the line is there.
C22_HeatIndexSurfacing ==
  \A r \in Reqs :
    WaqiUsed(r) =>
      /\ "heatIndex" \in WeatherParts(r) =>
           /\ ~IsNaN(calcHeatIndex(ReadF(r), ReadH(r)))
           /\ calcHeatIndex(ReadF(r), ReadH(r))[1] > 800000
      /\ (ReadF(r) = Num(70) /\ ReadH(r) = Num(50)) =>
           "heatIndex" \notin WeatherParts(r)
      /\ (ReadF(r) = Num(95) /\ ReadH(r) = Num(60)) =>
           /\ usesRegression(95, 60)
           /\ calcHeatIndex(ReadF(r), ReadH(r))[1] \in 1130000..1132000
           /\ "heatIndex" \in WeatherParts(r)

\* C22 witness: a fragment rendered from 95 F and 60 % with the line.
C22_Witness ==
  \E r \in Reqs :
    /\ WaqiUsed(r)
    /\ ReadF(r) = Num(95) /\ ReadH(r) = Num(60)
    /\ "heatIndex" \in WeatherParts(r)

\* C23 as stated: the wind-chill line is in the fragment only when the
\* ambient temperature is below the threshold of 40 F.
C23_WindChillBelowTemperature ==
  \A r \in Reqs :
    (WaqiUsed(r) /\ "windChill" \in WeatherParts(r)) =>
      (~IsNaN(ReadF(r)) /\ ReadF(r)[1] < 40)

\* C23: the wind-chill line is in the fragment exactly when the computed
\* wind chill is a number below 40 F, whatever the ambient temperature:
\* it is there at 40 F with a wind reading of 15, not at 45 F with 5.
C23_WindChillBelowValue ==
  \A r \in Reqs :
    WaqiUsed(r) =>
      /\ "windChill" \in WeatherParts(r) <=>
           /\ ~IsNaN(windChillOf(ReadF(r), ReadW(r)))
           /\ windChillOf(ReadF(r), ReadW(r))[1] < 400000
      /\ (ReadF(r) = Num(40) /\ ReadW(r) = Num(15)) =>
           "windChill" \in WeatherParts(r)
      /\ (ReadF(r) = Num(45) /\ ReadW(r) = Num(5)) =>
           "windChill" \notin WeatherParts(r)

\* C23 witness: the line written at an ambient temperature of 40 F.
C23_Witness ==
  \E r \in Reqs :
    /\ WaqiUsed(r)
    /\ ReadF(r) = Num(40) /\ ReadW(r) = Num(15)
    /\ "windChill" \in WeatherParts(r)

\* C24: when the WAQI call gave no data, or its body lacks the temperature,
\* humidity or wind entry, no heat-index, wind-chill or dew-point value is
\* in the fragment, not-a-number included.
C24_MissingInputsNotRendered ==
  \A r \in Reqs :
    HasWeather(r) =>
      /\ ~ret[r].waqiDataExists =>
           WeatherParts(r) \cap {"heatIndex", "windChill", "dewPoint", "dewPointNaN"} = {}
      /\ (ret[r].waqiDataExists /\ (IsNaN(ReadF(r)) \/ IsNaN(ReadH(r)))) =>
           WeatherParts(r) \cap {"heatIndex", "dewPoint", "dewPointNaN"} = {}
      /\ (ret[r].waqiDataExists /\ (IsNaN(ReadF(r)) \/ IsNaN(ReadW(r)))) =>
           "windChill" \notin WeatherParts(r)

\* ------------------------------------------------------------ determinism
\* The fragments written for request r, the nonce left out.
PageContent(r) == [i \in 1..Len(sink[r]) |-> [sink[r][i] EXCEPT !.nonce = 0]]

\* C21: two runs of the same request in which every call ended the same
\* way wrote the same fragments with the same content, the nonce apart,
\* in whatever order and however late their calls settled.
C21_SameOutcomesSamePage ==
  \A r, q \in Reqs :
    ( /\ Finished(r) /\ Finished(q)
      /\ req[r].cf = req[q].cf
      /\ seen[r] = seen[q]
      /\ body[r] = body[q] )
    => PageContent(r) = PageContent(q)

\* C21 witness: two finished runs of one request with the same outcomes,
\* a timeout and three data-bearing answers among them, and two nonces.
C21_Witness ==
  \E r, q \in Reqs :
    /\ r # q
    /\ req[r].pc = "done" /\ req[q].pc = "done"
    /\ req[r].cf = req[q].cf
    /\ req[r].nonce # req[q].nonce
    /\ seen[r] = seen[q]
    /\ seen[r]["waqi"] = "timeout"
    /\ seen[r]["nwsPoints"] = "full"
    /\ seen[r]["nwsForecast"] = "full"
    /\ seen[r]["airnowSensor"] = "full"

\* ------------------------------------------------------------ credentials
\* C25: in a deployment that lacks a credential, every call that needs it
\* ends without usable data, renderPage is not rejected, and a finished
\* render has written all five fragments and closed the sink.
C25_MissingCredentialTolerated ==
  \A r \in Reqs :
    /\ req[r].pc # "rejected"
    /\ \A c \in CallIds : CredentialOf(c) \notin secrets => ~DataExists(r, c)
    /\ Finished(r) => (Len(sink[r]) = 5 /\ closed[r] = 1)

\* ------------------------------------------------------------ WAQI without the NWS
NwsParts == {"nwsHeader", "alerts", "observations", "forecast"}

\* C26: when WAQI returned valid data and the NWS points lookup failed,
\* the current-conditions fragment has the readings and the WAQI source
\* and no radar image, the forecast fragment has nothing of the NWS, and
\* the footer shows the points lookup as failed; the render completes.
C26_PointsFailureScenario ==
  \A r \in Reqs :
    (seen[r]["waqi"] = "full" /\ seen[r]["nwsPoints"] \in FailureKinds) =>
      /\ HasWeather(r)
      /\ {"readings", "waqi"} \subseteq WeatherParts(r)
      /\ "radar" \notin WeatherParts(r)
      /\ \A c \in Round2Calls \ {"airnowForecast"} : netCalls[r][c] = 0
      /\ PartsWritten(r) \cap NwsParts = {}
      /\ req[r].pc # "rejected"
      /\ HasFooter(r) =>
           Indicator(r, "nwsPoints")
             = <<timeoutStatusEmoji(FALSE), statusEmoji(FALSE)>>

\* C26 witness: such a page written to the end after an HTTP error of the
\* points lookup.
C26_Witness ==
  \E r \in Reqs :
    /\ HasFooter(r)
    /\ seen[r]["waqi"] = "full"
    /\ seen[r]["nwsPoints"] = "non2xx"
    /\ "waqi" \in WeatherParts(r)

\* ------------------------------------------------------------ the fetch handler
Handled(r) == http[r].request.method # ""
HandlerFinished(r) == req[r].pc \notin {"idle", "proxy1", "proxy2"}
\* TLS 1.2 or 1.3, as the platform names them.
AcceptableTls(q) == q.tls.present /\ q.tls.value \in {TLSv12, TLSv13}
PageStarted(r) == sink[r] # <<>> \/ \E c \in CallIds : netCalls[r][c] > 0
NothingStarted(r) ==
  /\ http[r].assets = 0
  /\ http[r].upstream = <<>>
  /\ ~PageStarted(r)
ValidProxyQuery(q) ==
  /\ q.id.present /\ Len(q.id.value) = 4
  /\ q.refreshed.present /\ q.refreshed.value # <<>>

\* C27: a request whose TLS version is missing or is neither TLSv1.2 nor
\* TLSv1.3 is answered 403 whatever its path and method, and no asset
\* fetch, upstream call or page render is started for it.
C27_TlsEnforcedEverywhere ==
  \A r \in Reqs :
    (Handled(r) /\ ~AcceptableTls(http[r].request)) =>
      /\ http[r].returned
      /\ http[r].status = 403
      /\ NothingStarted(r)

\* A GET for a static asset over TLS 1.1 was refused.
C27_Witness ==
  \E r \in Reqs :
    /\ http[r].request.tls = Str(TLSv11)
    /\ http[r].request.method = "GET"
    /\ http[r].request.path = "/favicon.ico"
    /\ http[r].status = 403

\* C28: the handler decides in the order TLS, method, static asset, radar
\* proxy, page, 404: with acceptable TLS every non-GET request gets 405
\* with Allow: GET on every path, a page render starts only for GET on
\* "/", and a /radarproxy/ request without a 4-character id or without a
\* non-empty refreshed, like every other unmatched path, gets 404 with no
\* upstream fetch.
C28_RoutingPrecedence ==
  \A r \in Reqs :
    Handled(r) =>
      LET q == http[r].request
          get == AcceptableTls(q) /\ q.method = "GET"
          static == q.path \in STATIC_URLS
          proxy == q.path = "/radarproxy/" /\ ValidProxyQuery(q)
      IN /\ ~AcceptableTls(q) => http[r].status = 403
         /\ (AcceptableTls(q) /\ q.method # "GET") =>
              /\ http[r].status = 405
              /\ http[r].allow = "GET"
              /\ NothingStarted(r)
         /\ (get /\ static) =>
              /\ http[r].assets = 1
              /\ http[r].upstream = <<>>
              /\ ~PageStarted(r)
         /\ (get /\ ~static /\ proxy) =>
              /\ http[r].upstream # <<>>
              /\ http[r].assets = 0
              /\ ~PageStarted(r)
         /\ PageStarted(r) <=> (get /\ q.path = "/")
         /\ (get /\ ~static /\ ~proxy /\ q.path # "/") =>
              /\ http[r].status = 404
              /\ NothingStarted(r)

\* A POST for a static asset was answered 405, and so the method is checked
\* before the asset is looked up.
C28_Witness ==
  \E r \in Reqs :
    /\ AcceptableTls(http[r].request)
    /\ http[r].request.method = "POST"
    /\ http[r].request.path = "/favicon.ico"
    /\ http[r].status = 405
    /\ http[r].allow = "GET"

\* C29: the radar proxy fetches with the image transform first and, when
\* that response is neither ok nor redirected, the original exactly once
\* more; it makes at most two upstream fetches and always returns a
\* response that carries the CORS, Cache-Control and Vary headers.
C29_ProxyAlwaysAnswers ==
  \A r \in Reqs :
    (Handled(r) /\ route(http[r].request) = "radar") =>
      /\ Len(http[r].upstream) \in 1..2
      /\ http[r].upstream[1][1] = "transform"
      /\ Len(http[r].upstream) = 2 => http[r].upstream[2][1] = "plain"
      /\ HandlerFinished(r) =>
           /\ http[r].returned
           /\ proxyHeaders \subseteq http[r].headers

\* ------------------------------------------------------------ the AirNow forecast
\* The AirNow entries shown on request r's page.
AirnowShown(r) ==
  LET fs == {i \in 1..Len(sink[r]) : sink[r][i].kind = "forecast"}
  IN IF fs = {} THEN <<>> ELSE sink[r][CHOOSE i \in fs : TRUE].airnow
\* Today and tomorrow where the request comes from.
OwnToday(r) == dateString(localDate(OwnContext(r).timezone))
OwnTomorrow(r) == dateString(tomorrowOf(localDate(OwnContext(r).timezone)))

\* C30: of the AirNow forecast only entries dated today or tomorrow, in the
\* request's local date, are rendered, in feed order; "Today" and
\* "Tomorrow" are each written at most once, "Today" never after
\* "Tomorrow"; after the first entry of tomorrow no entry of today is
\* rendered.
C30_AirnowGrouping ==
  \A r \in Reqs :
    LET a == AirnowShown(r)
        n == Len(a)
    IN /\ \A i \in 1..n : a[i].date \in {OwnToday(r), OwnTomorrow(r)}
       /\ \A i \in 1..n : a[i].label = "Today" => a[i].date = OwnToday(r)
       /\ \A i \in 1..n : a[i].label = "Tomorrow" => a[i].date = OwnTomorrow(r)
       /\ \A i, j \in 1..n : i < j => a[i].entry < a[j].entry
       /\ \A i, j \in 1..n : (i # j /\ a[i].label # "") => a[i].label # a[j].label
       /\ \A i, j \in 1..n :
            (i < j /\ a[i].label = "Tomorrow") => a[j].label # "Today"
       /\ \A i, j \in 1..n :
            (i < j /\ a[i].date = OwnTomorrow(r)) => a[j].date # OwnToday(r)

\* ------------------------------------------------------------ the footer's flags
\* The request-success flag the render keeps for call c.
RequestSuccess(r, c) ==
  CASE c = "waqi" -> ret[r].waqiRequestSuccess
    [] c = "nwsPoints" -> ret[r].nwsPointsRequestSuccess
    [] c = "airnowSensor" -> ret[r].airnowSensorRequestSuccess
    [] c = "nwsAlert" -> ret[r].nwsAlertRequestSuccess
    [] c = "nwsForecast" -> ret[r].nwsForecastRequestSuccess
    [] c = "nwsObservations" -> ret[r].nwsObservationsRequestSuccess
    [] c = "airnowForecast" -> ret[r].airnowForecastRequestSuccess
TimeoutGlyph == "hourglass"
DataGlyph == "check"
NoDataGlyph == "cross"

C35_DataImpliesRequestSuccess ==
  \A r \in Reqs :
    HasFooter(r) =>
      \A c \in CallIds :
        /\ DataExists(r, c) => RequestSuccess(r, c)
        /\ Indicator(r, c) # <<TimeoutGlyph, DataGlyph>>

\* A footer that shows data for one round-1 call and a timeout for another.
C35_Witness ==
  \E r \in Reqs :
    /\ HasFooter(r)
    /\ DataExists(r, "nwsPoints")
    /\ Indicator(r, "nwsPoints") = <<"", DataGlyph>>
    /\ ~RequestSuccess(r, "airnowSensor")
    /\ seen[r]["airnowSensor"] = "empty"

\* C36: a round-1 call skipped by its region precondition is shown in the
\* footer as a timed-out call is: for a request from outside the US the
\* NWS location and the AirNow sensor entries are the timeout glyph with
\* the no-data glyph, though no request went out for them.
C36_SkippedLooksTimedOut ==
  \A r \in Reqs :
    HasFooter(r) =>
      \A c \in {"nwsPoints", "airnowSensor"} :
        /\ ~IndicatesUS(req[r].cf) =>
             /\ seen[r][c] = "skipped"
             /\ netCalls[r][c] = 0
        /\ seen[r][c] \in {"skipped", "timeout"} =>
             Indicator(r, c) = <<TimeoutGlyph, NoDataGlyph>>

\* A footer for a request from Toronto.
C36_Witness ==
  \E r \in Reqs :
    /\ HasFooter(r)
    /\ req[r].cf.hasCountry /\ ~IndicatesUS(req[r].cf)
    /\ netCalls[r]["nwsPoints"] = 0
    /\ Indicator(r, "nwsPoints") = <<TimeoutGlyph, NoDataGlyph>>
    /\ Indicator(r, "airnowSensor") = <<TimeoutGlyph, NoDataGlyph>>

\* ------------------------------------------------------------ aqiToEmoji
\* The band of an AQI by the published upper bounds, 1 (Good) to 6 (Hazardous).
BandOf(n) ==
  CHOOSE b \in 1..6 :
    /\ b < 6 => n <= <<50, 100, 150, 200, 300>>[b]
    /\ b > 1 => n > <<50, 100, 150, 200, 300>>[b - 1]
BandGlyphs == <<"green", "yellow", "orange", "red", "purple", "black">>
GlyphRank(g) == CHOOSE b \in 1..6 : BandGlyphs[b] = g

\* C33: aqiToEmoji gives every numeric AQI the indicator of its band, with
\* inclusive upper bounds 50, 100, 150, 200 and 300 and Hazardous above; a
\* larger AQI never gets a lower band; undefined and null get the empty
\* indicator.
C33_AqiBands ==
  /\ \A i \in 1..Len(aqi) :
       IF aqi[i].input.kind = "number"
         THEN aqi[i].glyph = BandGlyphs[BandOf(aqi[i].input.n)]
         ELSE aqi[i].glyph = ""
  /\ \A i, j \in 1..Len(aqi) :
       ( /\ aqi[i].input.kind = "number"
         /\ aqi[j].input.kind = "number"
         /\ aqi[i].input.n <= aqi[j].input.n )
       => GlyphRank(aqi[i].glyph) <= GlyphRank(aqi[j].glyph)

\* aqiToEmoji was given 50 and then 51.
C33_Witness ==
  /\ Len(aqi) = 2
  /\ aqi[1].input = AqiNumber(50) /\ aqi[1].glyph = "green"
  /\ aqi[2].input = AqiNumber(51) /\ aqi[2].glyph = "yellow"

\* ------------------------------------------------------------ lists
FragmentOf(r, kind) ==
  sink[r][CHOOSE i \in 1..Len(sink[r]) : sink[r][i].kind = kind]
HasFragment(r, kind) == \E i \in 1..Len(sink[r]) : sink[r][i].kind = kind

\* C31: when the NWS forecast call returned usable data with n periods,
\* the forecast fragment shows exactly the first min(4, n) periods, in the
\* provider's order, none skipped, duplicated or reordered.
C31_FirstFourPeriods ==
  \A r \in Reqs :
    (HasFragment(r, "forecast") /\ seen[r]["nwsForecast"] = "full") =>
      LET shown == FragmentOf(r, "forecast").periods
          given == body[r].periods
          n == Len(given)
      IN /\ Len(shown) = IF n < 4 THEN n ELSE 4
         /\ \A i \in 1..Len(shown) :
              shown[i].entry = i /\ shown[i].name = given[i]

\* A forecast of six periods was rendered.
C31_Witness ==
  \E r \in Reqs :
    /\ HasFragment(r, "forecast")
    /\ seen[r]["nwsForecast"] = "full"
    /\ Len(body[r].periods) = 6
    /\ Len(FragmentOf(r, "forecast").periods) = 4

\* C32: for a non-empty AirNow observation array the current-conditions
\* fragment shows as the AirNow overall AQI the greatest AQI of the
\* array, and as its category the category of the first entry that has it.
C32_OverallIsFirstMaximum ==
  \A r \in Reqs :
    (HasFragment(r, "weather") /\ seen[r]["airnowSensor"] = "full") =>
      LET shown == FragmentOf(r, "weather").overall
          data == body[r].sensors
          first == CHOOSE i \in 1..Len(data) :
                     /\ \A j \in 1..Len(data) : data[j].AQI <= data[i].AQI
                     /\ \A j \in 1..(i - 1) : data[j].AQI < data[i].AQI
      IN /\ Len(shown) = 1
         /\ shown[1].AQI = data[first].AQI
         /\ shown[1].category = data[first].Category

\* Three observations, the greatest AQI held by the last two with
\* different categories.
C32_Witness ==
  \E r \in Reqs :
    /\ HasFragment(r, "weather")
    /\ seen[r]["airnowSensor"] = "full"
    /\ body[r].sensors =
         <<Sensor(40, "Good"), Sensor(120, "Unhealthy"), Sensor(120, "Good")>>
    /\ FragmentOf(r, "weather").overall[1].category = "Unhealthy"

====
